---- MODULE Spec2Model ----
(***************************************************************************)
(* go-jira: the query encoder (utils.go: paramsToQuery and its helpers),   *)
(* the custom JSON decoders (api.go: IssueFields.UnmarshalJSON) and the    *)
(* request dispatcher (jira.go: doRequest and the endpoint methods).       *)
(*                                                                         *)
(* A Go string is modelled as a sequence of one-character strings, so      *)
(* that indexing, slicing and escaping are computed as the code computes   *)
(* them.                                                                   *)
(***************************************************************************)
EXTENDS Integers, Sequences, FiniteSets, TLC

VARIABLES
    params,     \* the parameter record handed to ToQuery: a sequence of fields
    i,          \* paramsToQuery: index of the next field of the loop (1-based)
    result,     \* paramsToQuery: the local `result`, then the returned string
    out,        \* what each loop iteration appended to `result`, in order
    pc,         \* position of the encoder call: "loop", "done"
    input,      \* the bytes b handed to IssueFields.UnmarshalJSON, as JSON
    f,          \* the known fields of the IssueFields record
    custom,     \* the map UnmarshalJSON makes for f.Custom and ranges over
    customNil,  \* f.Custom is nil and no longer that map
    todo,       \* the keys the range loop has still to produce
    err,        \* the error UnmarshalJSON returns
    dpc,        \* position of the decoder call: "call", "range", "done"
    lookup,     \* the last call of Has or Unmarshal on f.Custom and its result
    earlier,    \* the inputs of the earlier calls of UnmarshalJSON on the record
    endpoint,   \* the endpoint method called: its name and its decodeError flag
    resp,       \* what api.Client.Do yields: a transport error, or status and body
    statusCode, \* doRequest: the status code it returns
    rerr,       \* doRequest: the error it returns
    gerr,       \* the error the endpoint method returns
    decoded,    \* doRequest has run json.Unmarshal on the caller's result
    rpc,        \* position of the endpoint call: "do", "status", "returned", "done"
    call        \* a call of a helper of utils.go on its own: arguments and result

encVars == <<params, i, result, out, pc>>

decVars == <<input, f, custom, customNil, todo, err, dpc>>

storeVars == <<lookup>>

recVars == <<earlier>>

reqVars == <<endpoint, resp, statusCode, rerr, gerr, decoded, rpc>>

utilVars == <<call>>

vars == <<encVars, decVars, storeVars, recVars, reqVars, utilVars>>

---------------------------------------------------------------------------
(* Bounds of the model *)

MaxFields == 2      \* fields of a generic parameter record
MaxElems == 2       \* elements of a []string value of a generic record
MaxCalls == 2       \* calls of UnmarshalJSON on one IssueFields record
MaxTagLen == 3      \* characters around the option of a tag the helpers are called with
MaxKeys == 2        \* members of a generic JSON object

---------------------------------------------------------------------------
(* Go primitives the code uses *)

\* What a Go slice expression with a negative bound does: a run-time panic.
PANIC == <<"panic: slice bounds out of range">>

\* strings.Contains(s, c) for a one-character c
Contains(s, c) == \E k \in 1..Len(s) : s[k] = c

\* strings.Index(s, c) for a one-character c: 0-based, -1 when absent
Index(s, c) ==
    IF Contains(s, c)
        THEN (CHOOSE k \in 1..Len(s) : s[k] = c /\ \A j \in 1..(k - 1) : s[j] # c) - 1
        ELSE -1

\* s[:len(s)-1]
DropLast(s) == IF Len(s) = 0 THEN PANIC ELSE SubSeq(s, 1, Len(s) - 1)

Digit(n) == <<"0", "1", "2", "3", "4", "5", "6", "7", "8", "9">>[n + 1]

RECURSIVE Digits(_)
Digits(n) == IF n < 10 THEN <<Digit(n)>> ELSE Digits(n \div 10) \o <<Digit(n % 10)>>

\* fmt.Sprintf("%d", n)
Sprintf_d(n) == IF n < 0 THEN <<"-">> \o Digits(-n) ELSE Digits(n)

\* fmt.Sprintf("%02d", n)
Sprintf_02d(n) == IF n >= 0 /\ n < 10 THEN <<"0">> \o Digits(n) ELSE Sprintf_d(n)

\* time.Time: a calendar date and a time of day (UTC); the zero Time is
\* January 1, year 1, 00:00:00
zeroTime == [year |-> 1, month |-> 1, day |-> 1, hour |-> 0, min |-> 0, sec |-> 0]

IsZero(d) == d = zeroTime

\* Characters url.QueryEscape leaves alone: letters, digits, - _ . ~
Unreserved ==
    {<<"a", "b", "c", "d", "e", "f", "g", "h", "i", "j", "k", "l", "m", "n", "o", "p", "q", "r", "s", "t", "u", "v", "w", "x", "y", "z">>[k] : k \in 1..26}
    \cup {<<"A", "B", "C", "D", "E", "F", "G", "H", "I", "J", "K", "L", "M", "N", "O", "P", "Q", "R", "S", "T", "U", "V", "W", "X", "Y", "Z">>[k] : k \in 1..26}
    \cup {<<"0", "1", "2", "3", "4", "5", "6", "7", "8", "9">>[k] : k \in 1..10}
    \cup {"-", "_", ".", "~"}

\* The two hexadecimal digits url.QueryEscape writes for a character
HexOf(c) ==
    CASE c = "," -> <<"2", "C">>
      [] c = "&" -> <<"2", "6">>
      [] c = "=" -> <<"3", "D">>
      [] c = "%" -> <<"2", "5">>
      [] c = "+" -> <<"2", "B">>
      [] c = "?" -> <<"3", "F">>

---------------------------------------------------------------------------
(* utils.go *)

_OPTION_UNWRAP == <<"u", "n", "w", "r", "a", "p">>

_OPTION_RESPECT == <<"r", "e", "s", "p", "e", "c", "t">>

_OPTION_REVERSE == <<"r", "e", "v", "e", "r", "s", "e">>

escCharKeepComma(c) ==
    IF c \in Unreserved \cup {","} THEN <<c>>
    ELSE IF c = " " THEN <<"+">>
    ELSE <<"%">> \o HexOf(c)

escCharKeepAmpersand(c) ==
    IF c \in Unreserved \cup {"&", "="} THEN <<c>>
    ELSE IF c = " " THEN <<"+">>
    ELSE <<"%">> \o HexOf(c)

\* url.QueryEscape on one character
escChar(c) ==
    IF c \in Unreserved THEN <<c>>
    ELSE IF c = " " THEN <<"+">>
    ELSE <<"%">> \o HexOf(c)

\* esc escapes the string so it can be safely placed inside a URL query
RECURSIVE esc(_)
esc(s) == IF s = <<>> THEN <<>> ELSE escChar(Head(s)) \o esc(Tail(s))

hasTagOptionLastToken(tag, option) ==
    \E k \in 1..Len(tag) : tag[k] = "," /\ SubSeq(tag, k + 1, Len(tag)) = option

\* hasTagOption: the text after the first comma is the option
hasTagOption(tag, option) ==
    IF ~Contains(tag, ",") THEN FALSE
    ELSE SubSeq(tag, Index(tag, ",") + 2, Len(tag)) = option

getTagNameWhole(tag) == tag

\* getTagName: the text before the first comma
getTagName(tag) ==
    IF ~Contains(tag, ",") THEN tag
    ELSE SubSeq(tag, 1, Index(tag, ","))

\* formatSlice, the loop over the elements, from element k on
RECURSIVE formatSliceLoop(_, _, _, _)
formatSliceLoop(name, unwrap, s, k) ==
    IF k > Len(s) THEN <<>>
    ELSE (IF unwrap THEN name \o <<"=">> \o esc(s[k]) \o <<"&">>
                    ELSE esc(s[k]) \o <<",">>)
         \o formatSliceLoop(name, unwrap, s, k + 1)

formatSliceJoined(tag, s) ==
    LET name == getTagName(tag)
    IN  DropLast(name \o <<"=">> \o formatSliceLoop(name, FALSE, s, 1))

\* formatSlice
formatSlice(tag, s) ==
    LET name == getTagName(tag)
        unwrap == hasTagOption(tag, _OPTION_UNWRAP)
    IN  DropLast((IF ~unwrap THEN name \o <<"=">> ELSE <<>>)
                 \o formatSliceLoop(name, unwrap, s, 1))

\* paramsToQuery, case "string": what the iteration appends to result
stringQuery(tag, value) ==
    IF value # <<>> THEN tag \o <<"=">> \o esc(value) \o <<"&">>
    ELSE IF hasTagOption(tag, _OPTION_RESPECT) THEN getTagName(tag) \o <<"=", "&">>
    ELSE <<>>

\* paramsToQuery, case "int"
intQuery(tag, value) ==
    IF value # 0 THEN tag \o <<"=">> \o Sprintf_d(value) \o <<"&">>
    ELSE IF hasTagOption(tag, _OPTION_RESPECT) THEN getTagName(tag) \o <<"=", "0", "&">>
    ELSE <<>>

boolQueryNoInvert(tag, b) ==
    IF b THEN getTagName(tag) \o <<"=", "t", "r", "u", "e", "&">>
    ELSE IF hasTagOption(tag, _OPTION_RESPECT) THEN getTagName(tag) \o <<"=", "f", "a", "l", "s", "e", "&">>
    ELSE <<>>

boolQueryNoRespect(tag, b) ==
    IF hasTagOption(tag, _OPTION_REVERSE) /\ b THEN getTagName(tag) \o <<"=", "f", "a", "l", "s", "e", "&">>
    ELSE IF b THEN getTagName(tag) \o <<"=", "t", "r", "u", "e", "&">>
    ELSE <<>>

\* paramsToQuery, case "bool"
boolQuery(tag, b) ==
    IF hasTagOption(tag, _OPTION_REVERSE) /\ b THEN getTagName(tag) \o <<"=", "f", "a", "l", "s", "e", "&">>
    ELSE IF b THEN getTagName(tag) \o <<"=", "t", "r", "u", "e", "&">>
    ELSE IF hasTagOption(tag, _OPTION_RESPECT) THEN getTagName(tag) \o <<"=", "f", "a", "l", "s", "e", "&">>
    ELSE <<>>

\* paramsToQuery, case "time.Time"
timeQuery(tag, d) ==
    IF ~IsZero(d)
        THEN tag \o <<"=">> \o Sprintf_d(d.year) \o <<"-">> \o Sprintf_02d(d.month)
                 \o <<"-">> \o Sprintf_02d(d.day) \o <<"&">>
    ELSE <<>>

sliceQueryRespect(tag, value) ==
    IF Len(value) > 0 \/ hasTagOption(tag, _OPTION_RESPECT)
        THEN formatSlice(tag, value) \o <<"&">>
    ELSE <<>>

\* paramsToQuery, case "[]string"
sliceQuery(tag, value) ==
    IF Len(value) > 0 THEN formatSlice(tag, value) \o <<"&">> ELSE <<>>

returnQueryNoGuard(r) == DropLast(r)

returnQueryNoTrim(r) == r

\* paramsToQuery, the return: an empty result as it is, else result[:len(result)-1]
returnQuery(r) == IF r = <<>> THEN <<>> ELSE DropLast(r)

\* paramsToQuery: what one iteration of the loop appends for a field
fieldQuery(fld) ==
    CASE fld.type = "string" -> stringQuery(fld.tag, fld.str)
      [] fld.type = "int" -> intQuery(fld.tag, fld.int)
      [] fld.type = "bool" -> boolQuery(fld.tag, fld.bool)
      [] fld.type = "time.Time" -> timeQuery(fld.tag, fld.time)
      [] fld.type = "[]string" -> sliceQuery(fld.tag, fld.list)
      [] OTHER -> <<>>

RECURSIVE paramsToQueryLoop(_, _)
paramsToQueryLoop(p, k) ==
    IF k > Len(p) THEN <<>> ELSE fieldQuery(p[k]) \o paramsToQueryLoop(p, k + 1)

\* paramsToQuery as one call that nothing interleaves with
paramsToQuery(p) == returnQuery(paramsToQueryLoop(p, 1))

---------------------------------------------------------------------------
(* utils.go: readField *)

\* readField, the loop over the characters of data from the 0-based position k
\* on, with the locals curIndex and startPointer; data[a:b] is SubSeq(a+1, b)
RECURSIVE readFieldLoop(_, _, _, _, _, _)
readFieldLoop(data, index, separator, k, curIndex, startPointer) ==
    IF k >= Len(data)
        THEN IF index > curIndex THEN <<>>
             ELSE SubSeq(data, startPointer + 1, Len(data))
    ELSE IF data[k + 1] = separator
        THEN IF curIndex = index THEN SubSeq(data, startPointer + 1, k)
             ELSE readFieldLoop(data, index, separator, k + 1, curIndex + 1, k + 1)
    ELSE IF startPointer = -1
        THEN readFieldLoop(data, index, separator, k + 1, curIndex + 1, k)
    ELSE readFieldLoop(data, index, separator, k + 1, curIndex, startPointer)

\* readField read field from given data
readField(data, index, separator) ==
    IF data = <<>> \/ index < 0 THEN <<>>
    ELSE readFieldLoop(data, index, separator, 0, -1, -1)

---------------------------------------------------------------------------
(* JSON as encoding/json sees it *)

\* A JSON value: its kind, its raw text (what a json.RawMessage holds) and,
\* for an object, its members in the order of the text
Frag(kind, raw, members) == [kind |-> kind, raw |-> raw, members |-> members]

JNull == Frag("null", <<"n", "u", "l", "l">>, <<>>)

JNumber(text) == Frag("number", text, <<>>)

JString(text) == Frag("string", <<"\"">> \o text \o <<"\"">>, <<>>)

Member(key, val) == [key |-> key, val |-> val]

JObject(raw, members) == Frag("object", raw, members)

DigitChars == {<<"0", "1", "2", "3", "4", "5", "6", "7", "8", "9">>[k] : k \in 1..10}

DigitVal(c) == CHOOSE d \in 0..9 : Digit(d) = c

IsDigit(s, k) == k >= 1 /\ k <= Len(s) /\ s[k] \in DigitChars

RECURSIVE Atoi(_)
Atoi(s) == IF s = <<>> THEN 0 ELSE Atoi(SubSeq(s, 1, Len(s) - 1)) * 10 + DigitVal(s[Len(s)])

\* The integer a JSON number without fraction and exponent denotes
NumberValue(raw) == IF raw[1] = "-" THEN 0 - Atoi(Tail(raw)) ELSE Atoi(raw)

\* strings.Trim(s, "\"")
RECURSIVE TrimQuotes(_)
TrimQuotes(s) ==
    IF s = <<>> THEN s
    ELSE IF Head(s) = "\"" THEN TrimQuotes(Tail(s))
    ELSE IF s[Len(s)] = "\"" THEN TrimQuotes(SubSeq(s, 1, Len(s) - 1))
    ELSE s

\* A Go map as a function from its keys; the map without entries
EmptyMap == [k \in {} |-> JNull]

MapSet(m, key, val) == [k \in DOMAIN m \cup {key} |-> IF k = key THEN val ELSE m[k]]

MapDelete(m, key) == [k \in DOMAIN m \ {key} |-> m[k]]

\* json.Unmarshal of an object into a non-nil map: every member is stored
\* under its key, in the order of the text
RECURSIVE StoreMembers(_, _)
StoreMembers(m, members) ==
    IF members = <<>> THEN m
    ELSE StoreMembers(MapSet(m, Head(members).key, Head(members).val), Tail(members))

---------------------------------------------------------------------------
(* time.Parse for the two layouts of Date.UnmarshalJSON *)

IsLeap(year) == year % 4 = 0 /\ (year % 100 # 0 \/ year % 400 = 0)

DaysIn(month, year) ==
    IF month = 2 THEN (IF IsLeap(year) THEN 29 ELSE 28)
    ELSE IF month \in {4, 6, 9, 11} THEN 30
    ELSE 31

Num2(s, k) == DigitVal(s[k]) * 10 + DigitVal(s[k + 1])

\* The text starts with a date of the layout 2006-01-02
HasDate(s) ==
    /\ Len(s) >= 10
    /\ \A k \in {1, 2, 3, 4, 6, 7, 9, 10} : IsDigit(s, k)
    /\ s[5] = "-" /\ s[8] = "-"
    /\ Num2(s, 6) \in 1..12
    /\ Num2(s, 9) >= 1
    /\ Num2(s, 9) <= DaysIn(Num2(s, 6), Atoi(SubSeq(s, 1, 4)))

DateOf(s, hour, min, sec) ==
    [year |-> Atoi(SubSeq(s, 1, 4)), month |-> Num2(s, 6), day |-> Num2(s, 9),
     hour |-> hour, min |-> min, sec |-> sec]

\* The position after the run of digits that starts at position k
RECURSIVE SkipDigits(_, _)
SkipDigits(s, k) == IF IsDigit(s, k) THEN SkipDigits(s, k + 1) ELSE k

\* time.Parse("2006-01-02", s): the time, or zeroTime with an error
ParseDateOnly(s) ==
    IF HasDate(s) /\ Len(s) = 10
        THEN [err |-> FALSE, time |-> DateOf(s, 0, 0, 0)]
        ELSE [err |-> TRUE, time |-> zeroTime]

\* time.Parse("2006-01-02T15:04:05-0700", s): the hour has one or two digits,
\* a fraction of a second may follow the seconds, the zone is a sign and four
\* digits
ParseDateTime(s) ==
    LET hlen == IF IsDigit(s, 13) THEN 2 ELSE 1
        hour == IF hlen = 2 THEN Num2(s, 12) ELSE DigitVal(s[12])
        p == 12 + hlen
        q == p + 6
        z == IF Len(s) > q /\ s[q] \in {".", ","} /\ IsDigit(s, q + 1)
                THEN SkipDigits(s, q + 1) ELSE q
        ok ==
            /\ HasDate(s)
            /\ Len(s) >= 12 /\ s[11] = "T" /\ IsDigit(s, 12)
            /\ hour < 24
            /\ Len(s) >= p + 5
            /\ s[p] = ":" /\ IsDigit(s, p + 1) /\ IsDigit(s, p + 2) /\ Num2(s, p + 1) < 60
            /\ s[p + 3] = ":" /\ IsDigit(s, p + 4) /\ IsDigit(s, p + 5) /\ Num2(s, p + 4) < 60
            /\ Len(s) = z + 4
            /\ s[z] \in {"+", "-"}
            /\ \A k \in (z + 1)..(z + 4) : IsDigit(s, k)
    IN  IF ok THEN [err |-> FALSE, time |-> DateOf(s, hour, Num2(s, p + 1), Num2(s, p + 4))]
        ELSE [err |-> TRUE, time |-> zeroTime]

---------------------------------------------------------------------------
(* api.go: Date and IssueFields *)

nullBytes == <<"n", "u", "l", "l">>

DateUnmarshalJSONBareOnly(b) == ParseDateOnly(TrimQuotes(b))

\* Date.UnmarshalJSON(b): the error and the Time the Date is left with
DateUnmarshalJSON(b) ==
    IF Contains(b, "T") THEN ParseDateTime(TrimQuotes(b)) ELSE ParseDateOnly(TrimQuotes(b))

\* The known fields of IssueFields the model keeps, with their json tags
JsonTag ==
    [TimeSpent |-> <<"t", "i", "m", "e", "s", "p", "e", "n", "t">>,
     Summary |-> <<"s", "u", "m", "m", "a", "r", "y">>,
     ResolutionDate |-> <<"r", "e", "s", "o", "l", "u", "t", "i", "o", "n", "d", "a", "t", "e">>,
     Custom |-> <<"-">>]

FieldNames == DOMAIN JsonTag

\* UnmarshalJSON: the wire name a field is registered under in knownFields
propName(field) == readField(JsonTag[field], 0, ",")

\* UnmarshalJSON: knownFields has the key
found(key) == \E field \in FieldNames : propName(field) = key

\* UnmarshalJSON: knownFields[key]
knownFields(key) == CHOOSE field \in FieldNames : propName(field) = key

\* a *Date: nil, or a Date with its Time
nilDate == [nil |-> TRUE, Time |-> zeroTime]

\* &IssueFields{}: the known fields at their zero value
zeroFields == [TimeSpent |-> 0, Summary |-> <<>>, ResolutionDate |-> nilDate]

\* json.Unmarshal(chunk, &f.TimeSpent): null leaves the int alone
unmarshalInt(chunk, old) ==
    CASE chunk.kind = "null" -> [err |-> FALSE, val |-> old]
      [] chunk.kind = "number" -> [err |-> FALSE, val |-> NumberValue(chunk.raw)]
      [] OTHER -> [err |-> TRUE, val |-> old]

\* json.Unmarshal(chunk, &f.Summary): null leaves the string alone
unmarshalString(chunk, old) ==
    CASE chunk.kind = "null" -> [err |-> FALSE, val |-> old]
      [] chunk.kind = "string" -> [err |-> FALSE, val |-> TrimQuotes(chunk.raw)]
      [] OTHER -> [err |-> TRUE, val |-> old]

unmarshalDateLenient(chunk, old) ==
    IF chunk.kind = "null" THEN [err |-> FALSE, val |-> nilDate]
    ELSE [err |-> FALSE, val |-> [nil |-> FALSE, Time |-> DateUnmarshalJSON(chunk.raw).time]]

\* json.Unmarshal(chunk, &f.ResolutionDate): null sets the pointer to nil, any
\* other value is handed to UnmarshalJSON of the (allocated) Date
unmarshalDate(chunk, old) ==
    IF chunk.kind = "null" THEN [err |-> FALSE, val |-> nilDate]
    ELSE LET r == DateUnmarshalJSON(chunk.raw)
         IN  [err |-> r.err, val |-> [nil |-> FALSE, Time |-> r.time]]

\* UnmarshalJSON: json.Unmarshal(chunk, field.Addr().Interface()) for a field
\* other than Custom: the error and the record after it
unmarshalField(field, chunk, rec) ==
    CASE field = "TimeSpent" ->
            LET r == unmarshalInt(chunk, rec.TimeSpent)
            IN  [err |-> r.err, rec |-> [rec EXCEPT !.TimeSpent = r.val]]
      [] field = "Summary" ->
            LET r == unmarshalString(chunk, rec.Summary)
            IN  [err |-> r.err, rec |-> [rec EXCEPT !.Summary = r.val]]
      [] field = "ResolutionDate" ->
            LET r == unmarshalDate(chunk, rec.ResolutionDate)
            IN  [err |-> r.err, rec |-> [rec EXCEPT !.ResolutionDate = r.val]]

\* strings.HasPrefix(key, "customfield_")
HasPrefix(s, prefix) == Len(s) >= Len(prefix) /\ SubSeq(s, 1, Len(prefix)) = prefix

customPrefix == <<"c", "u", "s", "t", "o", "m", "f", "i", "e", "l", "d", "_">>

\* A nil json.RawMessage: what indexing a map yields for a key it has not
nilRaw == Frag("nil", <<>>, <<>>)

\* s[name]
MapGet(s, name) == IF name \in DOMAIN s THEN s[name] ELSE nilRaw

\* CustomFieldsStore.Has
Has(s, name) == MapGet(s, name) # nilRaw

\* json.Unmarshal(s[name], v) for v a *string or a *int: the error
unmarshalTarget(chunk, target) ==
    IF target = "string" THEN unmarshalString(chunk, <<>>).err ELSE unmarshalInt(chunk, 0).err

UnmarshalConflated(s, name, target) ==
    IF MapGet(s, name) = nilRaw \/ unmarshalTarget(MapGet(s, name), target)
        THEN "not exist" ELSE "nil"

\* CustomFieldsStore.Unmarshal: "not exist", the error of json.Unmarshal, or nil
Unmarshal(s, name, target) ==
    IF MapGet(s, name) = nilRaw THEN "not exist"
    ELSE IF unmarshalTarget(MapGet(s, name), target) THEN "json" ELSE "nil"

\* No helper has been called
NoCall == [op |-> "none", tag |-> <<>>, index |-> 0, options |-> {}, text |-> <<>>]

\* No call of Has or Unmarshal has been made
NoLookup == [op |-> "none", name |-> <<>>, target |-> "none", has |-> FALSE, err |-> "nil"]

\* A Go error value of the endpoint methods: nil, one of the package's errors,
\* makeUnknownError(code), errors.New(text) of a message of Jira, the error of
\* api.Client.Do or of json.Unmarshal
Error(kind, code, text) == [kind |-> kind, code |-> code, text |-> text]

nilError == Error("nil", 0, "")

ErrInvalidInput == Error("ErrInvalidInput", 0, "")

ErrNoPerms == Error("ErrNoPerms", 0, "")

ErrNoAuth == Error("ErrNoAuth", 0, "")

ErrNoContent == Error("ErrNoContent", 0, "")

makeUnknownError(code) == Error("unknown", code, "")

\* A response body: whether it is a JSON object, another JSON value or no
\* JSON; as an object, whether it decodes into an ErrorCollection and with
\* which errorMessages and errors, and whether it decodes into the result
Body(json, collection, errorMessages, errors, decodes) ==
    [json |-> json, collection |-> collection, errorMessages |-> errorMessages,
     errors |-> errors, result |-> decodes]

\* An empty response body
NoBody == Body("invalid", FALSE, <<>>, {}, FALSE)

\* ErrorCollection.Error: the first of errorMessages, else the value of some
\* entry of errors, else nil; the set of the errors it can return
ErrorCollectionError(e) ==
    IF Len(e.errorMessages) > 0 THEN {Error("message", 0, e.errorMessages[1])}
    ELSE IF e.errors # {} THEN {Error("message", 0, v) : v \in e.errors}
    ELSE {nilError}

decodeInternalErrorStrict(data) ==
    IF data.json # "object" \/ ~data.collection THEN {Error("json", 0, "")}
    ELSE ErrorCollectionError(data)

\* decodeInternalError: nil when the body does not decode into an
\* ErrorCollection, else what Error returns
decodeInternalError(data) ==
    IF data.json # "object" \/ ~data.collection THEN {nilError}
    ELSE ErrorCollectionError(data)

\* doRequest: json.Unmarshal(resp.Body(), result)
unmarshalResult(data) ==
    IF data.json = "object" /\ data.result THEN nilError ELSE Error("json", 0, "")

\* The endpoint methods of the model: whether they hand doRequest a result and
\* ask it to decode the error of Jira
Endpoint(name, hasResult, decodeError) ==
    [name |-> name, result |-> hasResult, decodeError |-> decodeError]

GetIssue == Endpoint("GetIssue", TRUE, TRUE)

GetConfiguration == Endpoint("GetConfiguration", TRUE, FALSE)

GetFilterFavourites == Endpoint("GetFilterFavourites", TRUE, FALSE)

deleteEntityProperty == Endpoint("deleteEntityProperty", FALSE, FALSE)

\* The switch on statusCode each endpoint method ends with
statusSwitch(name, code) ==
    CASE name = "GetIssue" ->
            (CASE code = 200 -> nilError
               [] code = 401 -> ErrNoAuth
               [] code = 404 -> ErrNoContent
               [] OTHER -> makeUnknownError(code))
      [] name = "GetConfiguration" ->
            (CASE code = 200 -> nilError
               [] code = 401 -> ErrNoAuth
               [] code = 403 -> ErrNoPerms
               [] OTHER -> makeUnknownError(code))
      [] name = "GetFilterFavourites" ->
            (CASE code = 200 -> nilError
               [] code = 401 -> ErrNoAuth
               [] OTHER -> makeUnknownError(code))
      [] name = "deleteEntityProperty" ->
            (CASE code = 204 -> nilError
               [] code = 400 -> ErrInvalidInput
               [] code = 401 -> ErrNoAuth
               [] code = 403 -> ErrNoPerms
               [] code = 404 -> ErrNoContent
               [] OTHER -> makeUnknownError(code))

---------------------------------------------------------------------------
(* api.go: parameter records *)

\* A field of a parameter record: its declared type, its `query` tag and its
\* value, held in the component of its type (the others are at their zero value)
Field(type, tag, str, int, bool, time, list) ==
    [type |-> type, tag |-> tag, str |-> str, int |-> int, bool |-> bool,
     time |-> time, list |-> list]

StringF(tag, v) == Field("string", tag, v, 0, FALSE, zeroTime, <<>>)

IntF(tag, v) == Field("int", tag, <<>>, v, FALSE, zeroTime, <<>>)

BoolF(tag, v) == Field("bool", tag, <<>>, 0, v, zeroTime, <<>>)

TimeF(tag, v) == Field("time.Time", tag, <<>>, 0, FALSE, v, <<>>)

SliceF(tag, v) == Field("[]string", tag, <<>>, 0, FALSE, zeroTime, v)

ExpandParameters(Expand) == <<SliceF(<<"e", "x", "p", "a", "n", "d">>, Expand)>>

EmptyParameters == <<>>

SearchParams(JQL, StartAt, MaxResults, DisableQueryValidation, fields, Expand) ==
    <<StringF(<<"j", "q", "l">>, JQL),
      IntF(<<"s", "t", "a", "r", "t", "A", "t">>, StartAt),
      IntF(<<"m", "a", "x", "R", "e", "s", "u", "l", "t", "s">>, MaxResults),
      BoolF(<<"v", "a", "l", "i", "d", "a", "t", "e", "Q", "u", "e", "r", "y", ",", "r", "e", "v", "e", "r", "s", "e">>, DisableQueryValidation),
      SliceF(<<"f", "i", "e", "l", "d", "s">>, fields),
      SliceF(<<"e", "x", "p", "a", "n", "d">>, Expand)>>

IssuePickerParams(Query, CurrentJQL, CurrentIssueKey, CurrentProjectID, ShowSubTasks, ShowSubTaskParent) ==
    <<StringF(<<"q", "u", "e", "r", "y">>, Query),
      StringF(<<"c", "u", "r", "r", "e", "n", "t", "J", "Q", "L">>, CurrentJQL),
      StringF(<<"c", "u", "r", "r", "e", "n", "t", "I", "s", "s", "u", "e", "K", "e", "y">>, CurrentIssueKey),
      StringF(<<"c", "u", "r", "r", "e", "n", "t", "P", "r", "o", "j", "e", "c", "t", "I", "d">>, CurrentProjectID),
      BoolF(<<"s", "h", "o", "w", "S", "u", "b", "T", "a", "s", "k", "s", ",", "r", "e", "s", "p", "e", "c", "t">>, ShowSubTasks),
      BoolF(<<"s", "h", "o", "w", "S", "u", "b", "T", "a", "s", "k", "P", "a", "r", "e", "n", "t", ",", "r", "e", "s", "p", "e", "c", "t">>, ShowSubTaskParent)>>

GroupUserPickerParams(Query, MaxResults, ShowAvatar, FieldID, ProjectID, IssueTypeID) ==
    <<StringF(<<"q", "u", "e", "r", "y">>, Query),
      IntF(<<"m", "a", "x", "R", "e", "s", "u", "l", "t", "s">>, MaxResults),
      BoolF(<<"s", "h", "o", "w", "A", "v", "a", "t", "a", "r">>, ShowAvatar),
      StringF(<<"f", "i", "e", "l", "d", "I", "d">>, FieldID),
      SliceF(<<"p", "r", "o", "j", "e", "c", "t", "I", "d", ",", "u", "n", "w", "r", "a", "p">>, ProjectID),
      SliceF(<<"i", "s", "s", "u", "e", "T", "y", "p", "e", "I", "d", ",", "u", "n", "w", "r", "a", "p">>, IssueTypeID)>>

---------------------------------------------------------------------------
(* The records the encoder is run on *)

\* The records of TestParamsEncoding
TestExpand == ExpandParameters(<<<<"t", "e", "s", "t", "1", ",", "t", "e", "s", "t", "2">>>>)

TestIssuePicker == IssuePickerParams(<<"A", "B", "C", "D">>, <<>>, <<>>, <<>>, TRUE, FALSE)

TestGroupUserPicker ==
    GroupUserPickerParams(<<"A", "B", "C", "D">>, 0, TRUE, <<>>, <<<<"1">>, <<"2">>>>, <<>>)

TestSearch == SearchParams(<<"A", "B", "C", "D">>, 1, 0, TRUE, <<>>, <<<<"t", "e", "s", "t", "1", ",", "t", "e", "s", "t", "2">>>>)

\* Records of the declared types, over all boolean values
DeclaredRecords ==
    {TestExpand, TestGroupUserPicker, TestSearch, EmptyParameters}
    \cup {IssuePickerParams(q, <<>>, <<>>, <<>>, b1, b2) :
            q \in {<<>>, <<"A", "B", "C", "D">>}, b1 \in BOOLEAN, b2 \in BOOLEAN}
    \cup {SearchParams(<<"A", "B", "C", "D">>, n, 0, b, <<>>, <<>>) : n \in {0, 1}, b \in BOOLEAN}

\* Generic records: every handled type under a bare tag and under each option
WireNames == {<<"q">>, <<"p">>}

Options == {_OPTION_UNWRAP, _OPTION_RESPECT, _OPTION_REVERSE}

Tags == {<<"q">>} \cup {<<"p", ",">> \o o : o \in Options}

StringValues == {<<>>, <<"a">>, <<"b", ",", "&", " ", "=", "%">>}

IntValues == {0, 7, -12}

TimeValues ==
    {zeroTime,
     [year |-> 2018, month |-> 5, day |-> 16, hour |-> 23, min |-> 55, sec |-> 39],
     [year |-> 987, month |-> 10, day |-> 2, hour |-> 0, min |-> 0, sec |-> 0]}

\* The elements a []string value is filled with, taken in turn
ElemPool == <<<<"a">>, <<"b", ",", "c">>, <<>>, <<"&", "=">>>>

SliceValues ==
    {[k \in 1..n |-> ElemPool[((s + k - 2) % Len(ElemPool)) + 1]] :
        n \in 0..MaxElems, s \in {1, 2}}

\* Tags whose text after the comma is no option
MalformedTags == {<<"p", ",", "b", "o", "g", "u", "s">>, <<"p", ",">>, <<"p", ",", "u", "n", "w", "r", "a", "p", ",", "r", "e", "s", "p", "e", "c", "t">>}

\* A field of every handled type under each of them, with a value that emits
MalformedFields ==
    UNION {{StringF(tag, <<"a">>), IntF(tag, 7), BoolF(tag, TRUE),
            TimeF(tag, [year |-> 2018, month |-> 5, day |-> 16, hour |-> 23, min |-> 55, sec |-> 39]),
            SliceF(tag, <<<<"a">>, <<"b", ",", "c">>>>)} : tag \in MalformedTags}

Fields ==
    {StringF(tag, v) : tag \in Tags, v \in StringValues}
    \cup {IntF(tag, v) : tag \in Tags, v \in IntValues}
    \cup {BoolF(tag, v) : tag \in Tags, v \in BOOLEAN}
    \cup {TimeF(tag, v) : tag \in Tags, v \in TimeValues}
    \cup {SliceF(tag, v) : tag \in Tags, v \in SliceValues}
    \cup {Field("int64", <<"q">>, <<>>, 7, FALSE, zeroTime, <<>>),
          Field("[]int", <<"p", ",", "r", "e", "s", "p", "e", "c", "t">>, <<>>, 0, FALSE, zeroTime, <<>>)}
    \cup MalformedFields

GenericRecords == UNION {[1..n -> Fields] : n \in 0..MaxFields}

ParamRecords == DeclaredRecords \cup GenericRecords

---------------------------------------------------------------------------
(* The encoder as a state machine *)

\* No decoder call is under way
DecoderIdle ==
    /\ input = [kind |-> "null", object |-> EmptyMap]
    /\ f = zeroFields
    /\ custom = EmptyMap
    /\ customNil = TRUE
    /\ todo = {}
    /\ err = "nil"
    /\ dpc = "done"
    /\ lookup = NoLookup
    /\ earlier = <<>>

\* No endpoint call is under way
RequestIdle ==
    /\ endpoint = Endpoint("none", FALSE, FALSE)
    /\ resp = [fails |-> FALSE, status |-> 200, body |-> NoBody]
    /\ statusCode = 0
    /\ rerr = nilError
    /\ gerr = nilError
    /\ decoded = FALSE
    /\ rpc = "done"

\* No helper of utils.go is called on its own
UtilIdle == call = NoCall

\* No encoder call is under way
EncoderIdle ==
    /\ params = <<>>
    /\ i = 1
    /\ result = <<>>
    /\ out = <<>>
    /\ pc = "done"

Init ==
    /\ params \in ParamRecords
    /\ i = 1
    /\ result = <<>>
    /\ out = <<>>
    /\ pc = "loop"
    /\ DecoderIdle
    /\ RequestIdle
    /\ UtilIdle

\* paramsToQuery, one iteration of the loop: the field is a string
StringField ==
    /\ pc = "loop"
    /\ i <= Len(params)
    /\ params[i].type = "string"
    /\ result' = result \o stringQuery(params[i].tag, params[i].str)
    /\ out' = Append(out, stringQuery(params[i].tag, params[i].str))
    /\ i' = i + 1
    /\ UNCHANGED <<params, pc>>
    /\ UNCHANGED <<decVars, storeVars, recVars, reqVars, utilVars>>

\* the field is an int
IntField ==
    /\ pc = "loop"
    /\ i <= Len(params)
    /\ params[i].type = "int"
    /\ result' = result \o intQuery(params[i].tag, params[i].int)
    /\ out' = Append(out, intQuery(params[i].tag, params[i].int))
    /\ i' = i + 1
    /\ UNCHANGED <<params, pc>>
    /\ UNCHANGED <<decVars, storeVars, recVars, reqVars, utilVars>>

\* the field is a bool
BoolField ==
    /\ pc = "loop"
    /\ i <= Len(params)
    /\ params[i].type = "bool"
    /\ result' = result \o boolQuery(params[i].tag, params[i].bool)
    /\ out' = Append(out, boolQuery(params[i].tag, params[i].bool))
    /\ i' = i + 1
    /\ UNCHANGED <<params, pc>>
    /\ UNCHANGED <<decVars, storeVars, recVars, reqVars, utilVars>>

\* the field is a time.Time
TimeField ==
    /\ pc = "loop"
    /\ i <= Len(params)
    /\ params[i].type = "time.Time"
    /\ result' = result \o timeQuery(params[i].tag, params[i].time)
    /\ out' = Append(out, timeQuery(params[i].tag, params[i].time))
    /\ i' = i + 1
    /\ UNCHANGED <<params, pc>>
    /\ UNCHANGED <<decVars, storeVars, recVars, reqVars, utilVars>>

\* the field is a []string
SliceField ==
    /\ pc = "loop"
    /\ i <= Len(params)
    /\ params[i].type = "[]string"
    /\ result' = result \o sliceQuery(params[i].tag, params[i].list)
    /\ out' = Append(out, sliceQuery(params[i].tag, params[i].list))
    /\ i' = i + 1
    /\ UNCHANGED <<params, pc>>
    /\ UNCHANGED <<decVars, storeVars, recVars, reqVars, utilVars>>

\* the field is of a type the switch has no case for: nothing is appended
OtherFieldAsInt ==
    /\ pc = "loop"
    /\ i <= Len(params)
    /\ params[i].type \notin {"string", "int", "bool", "time.Time", "[]string"}
    /\ result' = result \o intQuery(params[i].tag, params[i].int)
    /\ out' = Append(out, intQuery(params[i].tag, params[i].int))
    /\ i' = i + 1
    /\ UNCHANGED <<params, pc>>
    /\ UNCHANGED <<decVars, storeVars, recVars, reqVars, utilVars>>

OtherField ==
    /\ pc = "loop"
    /\ i <= Len(params)
    /\ params[i].type \notin {"string", "int", "bool", "time.Time", "[]string"}
    /\ out' = Append(out, <<>>)
    /\ i' = i + 1
    /\ UNCHANGED <<params, result, pc>>
    /\ UNCHANGED <<decVars, storeVars, recVars, reqVars, utilVars>>

ReturnSharedScratch ==
    /\ pc = "loop"
    /\ i > Len(params)
    /\ result' = returnQuery(result)
    /\ pc' = "done"
    /\ custom' = EmptyMap
    /\ UNCHANGED <<params, i, out>>
    /\ UNCHANGED <<input, f, customNil, todo, err, dpc>>
    /\ UNCHANGED <<storeVars, recVars, reqVars, utilVars>>

\* paramsToQuery: the loop is over and the function returns
Return ==
    /\ pc = "loop"
    /\ i > Len(params)
    /\ result' = returnQuery(result)
    /\ pc' = "done"
    /\ UNCHANGED <<params, i, out>>
    /\ UNCHANGED <<decVars, storeVars, recVars, reqVars, utilVars>>

\* EmptyParameters.ToQuery: returns "" without running the encoder
EmptyParametersToQuery ==
    /\ pc = "loop"
    /\ params = EmptyParameters
    /\ result' = <<>>
    /\ pc' = "done"
    /\ UNCHANGED <<params, i, out>>
    /\ UNCHANGED <<decVars, storeVars, recVars, reqVars, utilVars>>

Next ==
    \/ StringField
    \/ IntField
    \/ BoolField
    \/ TimeField
    \/ SliceField
    \/ OtherField
    \/ Return
    \/ EmptyParametersToQuery

Spec == Init /\ [][Next]_vars

---------------------------------------------------------------------------
(* The inputs the decoder is run on *)

\* The object of TestCustomUnmarshalers
TestFields ==
    [kind |-> "object",
     object |->
        [key \in {<<"t", "i", "m", "e", "s", "p", "e", "n", "t">>,
                  <<"c", "u", "s", "t", "o", "m", "f", "i", "e", "l", "d", "_", "1", "0", "7", "0", "0">>,
                  <<"r", "e", "s", "o", "l", "u", "t", "i", "o", "n", "d", "a", "t", "e">>} |->
            CASE key = <<"t", "i", "m", "e", "s", "p", "e", "n", "t">> -> JNumber(<<"7", "2", "0", "0">>)
              [] key = <<"c", "u", "s", "t", "o", "m", "f", "i", "e", "l", "d", "_", "1", "0", "7", "0", "0">> -> JString(<<"T", "E", "S", "T", "1", "2", "3">>)
              [] key = <<"r", "e", "s", "o", "l", "u", "t", "i", "o", "n", "d", "a", "t", "e">> ->
                    JString(<<"2", "0", "1", "8", "-", "0", "3", "-", "2", "6", "T", "1", "7", ":", "3", "7", ":", "2", "9", ".", "8", "0", "5", "+", "0", "3", "0", "0">>)]]

Keys ==
    {<<"t", "i", "m", "e", "s", "p", "e", "n", "t">>, <<"s", "u", "m", "m", "a", "r", "y">>, <<"r", "e", "s", "o", "l", "u", "t", "i", "o", "n", "d", "a", "t", "e">>, <<"-">>, <<"c", "u", "s", "t", "o", "m", "f", "i", "e", "l", "d", "_", "1", "0", "7", "0", "0">>,
     <<"c", "u", "s", "t", "o", "m", "f", "i", "e", "l", "d", "_", "1">>, <<"f", "o", "o">>, <<>>}

SimpleValues ==
    {JNull, JNumber(<<"7", "2", "0", "0">>), JString(<<"T", "E", "S", "T", "1", "2", "3">>)}

\* Texts of the two layouts of Date.UnmarshalJSON
DateValues ==
    {JString(<<"2", "0", "1", "8", "-", "1", "0", "-", "1", "8">>), JString(<<"2", "0", "1", "8", "-", "0", "5", "-", "1", "6", "T", "2", "3", ":", "5", "5", ":", "3", "9", ".", "2", "4", "6", "+", "0", "3", "0", "0">>),
     JString(<<"2", "0", "1", "8", "-", "0", "3", "-", "2", "6", "T", "1", "7", ":", "3", "7", ":", "2", "9", ".", "8", "0", "5", "+", "0", "3", "0", "0">>), JString(<<"2", "0", "1", "6", "-", "0", "2", "-", "2", "9", "T", "7", ":", "0", "5", ":", "0", "9", "-", "0", "1", "3", "0">>)}

\* Texts of neither layout
NoDateValues ==
    {JString(<<"2", "0", "1", "8", "-", "1", "3", "-", "0", "1">>), JString(<<"2", "0", "1", "8", "-", "0", "2", "-", "3", "0">>), JString(<<"2", "0", "1", "8", "-", "1", "0", "-", "1", "8", "T">>),
     JString(<<"2", "0", "1", "8", "-", "0", "5", "-", "1", "6", "T", "2", "3", ":", "5", "5", ":", "3", "9">>), JString(<<"1", "6", ".", "0", "5", ".", "2", "0", "1", "8">>), JString(<<>>)}

ObjectValues ==
    {JObject(<<"{", "\"", "c", "u", "s", "t", "o", "m", "f", "i", "e", "l", "d", "_", "1", "\"", ":", "2", "}">>, <<Member(<<"c", "u", "s", "t", "o", "m", "f", "i", "e", "l", "d", "_", "1">>, JNumber(<<"2">>))>>),
     JObject(<<"{", "\"", "f", "o", "o", "\"", ":", "\"", "x", "\"", "}">>, <<Member(<<"f", "o", "o">>, JString(<<"x">>))>>),
     JObject(<<"{", "\"", "c", "u", "s", "t", "o", "m", "f", "i", "e", "l", "d", "_", "2", "\"", ":", "n", "u", "l", "l", "}">>, <<Member(<<"c", "u", "s", "t", "o", "m", "f", "i", "e", "l", "d", "_", "2">>, JNull)>>),
     JObject(<<"{", "\"", "t", "i", "m", "e", "s", "p", "e", "n", "t", "\"", ":", "5", "}">>, <<Member(<<"t", "i", "m", "e", "s", "p", "e", "n", "t">>, JNumber(<<"5">>))>>)}

MemberValues == SimpleValues \cup DateValues \cup NoDateValues \cup ObjectValues

\* The values a key is given: dates for the Date field, objects for the key
\* Custom is registered under, and a value of each JSON kind for every key
ValuesOf(key) ==
    CASE key = <<"r", "e", "s", "o", "l", "u", "t", "i", "o", "n", "d", "a", "t", "e">> -> SimpleValues \cup DateValues \cup NoDateValues
      [] key = <<"-">> -> SimpleValues \cup ObjectValues
      [] OTHER -> SimpleValues \cup {JObject(<<"{", "\"", "f", "o", "o", "\"", ":", "\"", "x", "\"", "}">>, <<Member(<<"f", "o", "o">>, JString(<<"x">>))>>)}

Objects ==
    UNION {{o \in [K -> MemberValues] : \A key \in K : o[key] \in ValuesOf(key)} :
            K \in {S \in SUBSET Keys : Cardinality(S) <= MaxKeys}}

\* b: a JSON object, the JSON null, another JSON value, or no JSON at all
Inputs ==
    {[kind |-> "object", object |-> o] : o \in Objects}
    \cup {TestFields}
    \cup {[kind |-> k, object |-> EmptyMap] : k \in {"null", "number", "invalid"}}

---------------------------------------------------------------------------
(* IssueFields.UnmarshalJSON as a state machine *)

\* f.Custom as the caller sees it: a nil map has no entries
Custom == IF customNil THEN EmptyMap ELSE custom

InitDecode ==
    /\ input \in Inputs
    /\ f = zeroFields
    /\ custom = EmptyMap
    /\ customNil = TRUE
    /\ todo = {}
    /\ err = "nil"
    /\ dpc = "call"
    /\ lookup = NoLookup
    /\ earlier = <<>>
    /\ EncoderIdle
    /\ RequestIdle
    /\ UtilIdle

ParseObjectNoReset ==
    /\ dpc = "call"
    /\ input.kind = "object"
    /\ custom' = [key \in DOMAIN Custom \cup DOMAIN input.object |->
                    IF key \in DOMAIN input.object THEN input.object[key] ELSE Custom[key]]
    /\ customNil' = FALSE
    /\ todo' = DOMAIN Custom \cup DOMAIN input.object
    /\ dpc' = "range"
    /\ UNCHANGED <<input, f, err>>
    /\ UNCHANGED <<encVars, storeVars, recVars, reqVars, utilVars>>

\* UnmarshalJSON up to the loop: f.Custom is a new map, b is a JSON object and
\* its members fill f.Custom
ParseObject ==
    /\ dpc = "call"
    /\ input.kind = "object"
    /\ custom' = input.object
    /\ customNil' = FALSE
    /\ todo' = DOMAIN input.object
    /\ dpc' = "range"
    /\ UNCHANGED <<input, f, err>>
    /\ UNCHANGED <<encVars, storeVars, recVars, reqVars, utilVars>>

\* b is the JSON null: json.Unmarshal sets f.Custom to nil and reports no error
ParseNull ==
    /\ dpc = "call"
    /\ input.kind = "null"
    /\ custom' = EmptyMap
    /\ customNil' = TRUE
    /\ todo' = {}
    /\ dpc' = "range"
    /\ UNCHANGED <<input, f, err>>
    /\ UNCHANGED <<encVars, storeVars, recVars, reqVars, utilVars>>

ParseErrorIgnored ==
    /\ dpc = "call"
    /\ input.kind \notin {"object", "null"}
    /\ custom' = EmptyMap
    /\ customNil' = FALSE
    /\ todo' = {}
    /\ dpc' = "range"
    /\ UNCHANGED <<input, f, err>>
    /\ UNCHANGED <<encVars, storeVars, recVars, reqVars, utilVars>>

\* b is not a JSON object: json.Unmarshal fails and the error is returned
ParseError ==
    /\ dpc = "call"
    /\ input.kind \notin {"object", "null"}
    /\ custom' = EmptyMap
    /\ customNil' = FALSE
    /\ todo' = {}
    /\ err' = "json"
    /\ dpc' = "done"
    /\ UNCHANGED <<input, f>>
    /\ UNCHANGED <<encVars, storeVars, recVars, reqVars, utilVars>>

\* delete(f.Custom, key): nothing on a nil map
deleteCustom(key) == IF customNil THEN custom ELSE MapDelete(custom, key)

\* The loop produces a key of knownFields other than that of Custom
VisitKnown ==
    /\ dpc = "range"
    /\ \E key \in todo :
        /\ found(key)
        /\ knownFields(key) # "Custom"
        /\ LET r == unmarshalField(knownFields(key), custom[key], f)
           IN  /\ f' = r.rec
               /\ IF r.err
                    THEN /\ err' = "field"
                         /\ dpc' = "done"
                         /\ todo' = {}
                         /\ UNCHANGED custom
                    ELSE /\ custom' = deleteCustom(key)
                         /\ todo' = todo \ {key}
                         /\ UNCHANGED <<err, dpc>>
    /\ UNCHANGED <<input, customNil>>
    /\ UNCHANGED <<encVars, storeVars, recVars, reqVars, utilVars>>

\* The loop produces the key Custom itself is registered under, and the chunk
\* is decoded into f.Custom, the map the loop ranges over: null sets f.Custom to
\* nil, an object stores its members, which the loop may produce or skip
VisitCustomField ==
    /\ dpc = "range"
    /\ ~customNil
    /\ \E key \in todo :
        /\ found(key)
        /\ knownFields(key) = "Custom"
        /\ LET chunk == custom[key]
               created == {m.key : m \in {chunk.members[k] : k \in 1..Len(chunk.members)}}
                            \ DOMAIN custom
           IN  CASE chunk.kind = "null" ->
                        /\ customNil' = TRUE
                        /\ todo' = todo \ {key}
                        /\ UNCHANGED <<custom, err, dpc>>
                 [] chunk.kind = "object" ->
                        /\ custom' = MapDelete(StoreMembers(custom, chunk.members), key)
                        /\ \E produced \in SUBSET created : todo' = (todo \ {key}) \cup produced
                        /\ UNCHANGED <<customNil, err, dpc>>
                 [] OTHER ->
                        /\ err' = "field"
                        /\ dpc' = "done"
                        /\ todo' = {}
                        /\ UNCHANGED <<custom, customNil>>
    /\ UNCHANGED <<input, f>>
    /\ UNCHANGED <<encVars, storeVars, recVars, reqVars, utilVars>>

\* The loop produces a key that is not known and has not the prefix: deleted
VisitOther ==
    /\ dpc = "range"
    /\ \E key \in todo :
        /\ ~found(key)
        /\ ~HasPrefix(key, customPrefix)
        /\ custom' = deleteCustom(key)
        /\ todo' = todo \ {key}
    /\ UNCHANGED <<input, f, customNil, err, dpc>>
    /\ UNCHANGED <<encVars, storeVars, recVars, reqVars, utilVars>>

\* The loop produces a key with the prefix: deleted when the chunk is null
VisitCustomKey ==
    /\ dpc = "range"
    /\ \E key \in todo :
        /\ ~found(key)
        /\ HasPrefix(key, customPrefix)
        /\ custom' = IF custom[key].raw = nullBytes THEN deleteCustom(key) ELSE custom
        /\ todo' = todo \ {key}
    /\ UNCHANGED <<input, f, customNil, err, dpc>>
    /\ UNCHANGED <<encVars, storeVars, recVars, reqVars, utilVars>>

\* The loop is over: UnmarshalJSON returns nil
ReturnNil ==
    /\ dpc = "range"
    /\ todo = {}
    /\ dpc' = "done"
    /\ UNCHANGED <<input, f, custom, customNil, todo, err>>
    /\ UNCHANGED <<encVars, storeVars, recVars, reqVars, utilVars>>

\* The names Has and Unmarshal are called with
LookupNames == {<<"c", "u", "s", "t", "o", "m", "f", "i", "e", "l", "d", "_", "1", "0", "7", "0", "0">>, <<"c", "u", "s", "t", "o", "m", "f", "i", "e", "l", "d", "_", "2">>, <<"f", "o", "o">>, <<"t", "i", "m", "e", "s", "p", "e", "n", "t">>}

\* f.Custom.Has(name) after UnmarshalJSON has returned
CallHas ==
    /\ dpc = "done"
    /\ lookup = NoLookup
    /\ \E name \in LookupNames :
        lookup' = [op |-> "Has", name |-> name, target |-> "none",
                   has |-> Has(Custom, name), err |-> "nil"]
    /\ UNCHANGED decVars
    /\ UNCHANGED <<encVars, recVars, reqVars, utilVars>>

\* f.Custom.Unmarshal(name, v) after UnmarshalJSON has returned
CallUnmarshal ==
    /\ dpc = "done"
    /\ lookup = NoLookup
    /\ \E name \in LookupNames, target \in {"string", "int"} :
        lookup' = [op |-> "Unmarshal", name |-> name, target |-> target,
                   has |-> FALSE, err |-> Unmarshal(Custom, name, target)]
    /\ UNCHANGED decVars
    /\ UNCHANGED <<encVars, recVars, reqVars, utilVars>>

NextDecode ==
    \/ CallHas
    \/ CallUnmarshal
    \/ ParseObject
    \/ ParseNull
    \/ ParseError
    \/ VisitKnown
    \/ VisitCustomField
    \/ VisitOther
    \/ VisitCustomKey
    \/ ReturnNil

SpecDecode == InitDecode /\ [][NextDecode]_vars

---------------------------------------------------------------------------
(* An encoder call and a decoder call running at the same time *)

\* The records and the inputs of the two calls
BothRecords ==
    {TestGroupUserPicker, TestSearch, TestIssuePicker, EmptyParameters,
     <<TimeF(<<"q">>, [year |-> 2018, month |-> 5, day |-> 16, hour |-> 23, min |-> 55, sec |-> 39]),
       Field("int64", <<"q">>, <<>>, 7, FALSE, zeroTime, <<>>)>>}

BothInputs ==
    {TestFields}
    \cup {[kind |-> k, object |-> EmptyMap] : k \in {"null", "invalid"}}
    \cup {[kind |-> "object", object |-> o] :
            o \in {[key \in {<<"-">>, <<"c", "u", "s", "t", "o", "m", "f", "i", "e", "l", "d", "_", "1", "0", "7", "0", "0">>} |->
                        IF key = <<"-">> THEN JNull ELSE JString(<<"T", "E", "S", "T", "1", "2", "3">>)],
                   [key \in {<<"f", "o", "o">>, <<"c", "u", "s", "t", "o", "m", "f", "i", "e", "l", "d", "_", "2">>, <<"s", "u", "m", "m", "a", "r", "y">>} |->
                        IF key = <<"c", "u", "s", "t", "o", "m", "f", "i", "e", "l", "d", "_", "2">> THEN JNull ELSE JString(<<"T", "E", "S", "T", "1", "2", "3">>)],
                   [key \in {<<"t", "i", "m", "e", "s", "p", "e", "n", "t">>, <<"s", "u", "m", "m", "a", "r", "y">>} |-> JNumber(<<"7", "2", "0", "0">>)]}}

InitBoth ==
    /\ params \in BothRecords
    /\ i = 1
    /\ result = <<>>
    /\ out = <<>>
    /\ pc = "loop"
    /\ input \in BothInputs
    /\ f = zeroFields
    /\ custom = EmptyMap
    /\ customNil = TRUE
    /\ todo = {}
    /\ err = "nil"
    /\ dpc = "call"
    /\ lookup = NoLookup
    /\ earlier = <<>>
    /\ RequestIdle
    /\ UtilIdle

\* A step of either call
NextBoth ==
    \/ Next
    \/ NextDecode

SpecBoth == InitBoth /\ [][NextBoth]_vars

---------------------------------------------------------------------------
(* jira.go: an endpoint method and doRequest as a state machine *)

Endpoints == {GetIssue, GetConfiguration, GetFilterFavourites, deleteEntityProperty}

StatusCodes == {200, 204, 400, 401, 403, 404, 500}

\* Bodies: an issue, error collections of Jira with and without messages, an
\* object that is no error collection, an object that is not the result, a
\* JSON text that is no object, and no JSON
Bodies ==
    {Body("object", TRUE, <<>>, {}, TRUE),
     Body("object", TRUE, <<"Issue Does Not Exist", "Second">>, {}, TRUE),
     Body("object", TRUE, <<>>, {"Field is required", "Field is too long"}, TRUE),
     Body("object", FALSE, <<>>, {}, TRUE),
     Body("object", TRUE, <<>>, {}, FALSE),
     Body("other", FALSE, <<>>, {}, FALSE),
     NoBody}

InitRequest ==
    /\ endpoint \in Endpoints
    /\ resp \in [fails : BOOLEAN, status : StatusCodes, body : Bodies]
    /\ statusCode = 0
    /\ rerr = nilError
    /\ gerr = nilError
    /\ decoded = FALSE
    /\ rpc = "do"
    /\ EncoderIdle
    /\ DecoderIdle
    /\ UtilIdle

\* doRequest: api.Client.Do fails; -1 and the error are returned
ClientDoFails ==
    /\ rpc = "do"
    /\ resp.fails
    /\ statusCode' = -1
    /\ rerr' = Error("transport", 0, "")
    /\ rpc' = "returned"
    /\ UNCHANGED <<endpoint, resp, gerr, decoded>>
    /\ UNCHANGED <<encVars, decVars, storeVars, recVars, utilVars>>

\* doRequest: api.Client.Do succeeds; statusCode := resp.StatusCode()
ClientDo ==
    /\ rpc = "do"
    /\ ~resp.fails
    /\ statusCode' = resp.status
    /\ rpc' = "status"
    /\ UNCHANGED <<endpoint, resp, rerr, gerr, decoded>>
    /\ UNCHANGED <<encVars, decVars, storeVars, recVars, utilVars>>

\* doRequest: statusCode != 200 && decodeError
DecodeError ==
    /\ rpc = "status"
    /\ statusCode # 200 /\ endpoint.decodeError
    /\ \E e \in decodeInternalError(resp.body) : rerr' = e
    /\ rpc' = "returned"
    /\ UNCHANGED <<endpoint, resp, statusCode, gerr, decoded>>
    /\ UNCHANGED <<encVars, decVars, storeVars, recVars, utilVars>>

\* doRequest: result == nil
NoResult ==
    /\ rpc = "status"
    /\ ~(statusCode # 200 /\ endpoint.decodeError)
    /\ ~endpoint.result
    /\ rerr' = nilError
    /\ rpc' = "returned"
    /\ UNCHANGED <<endpoint, resp, statusCode, gerr, decoded>>
    /\ UNCHANGED <<encVars, decVars, storeVars, recVars, utilVars>>

\* doRequest: err = json.Unmarshal(resp.Body(), result)
DecodeResult ==
    /\ rpc = "status"
    /\ ~(statusCode # 200 /\ endpoint.decodeError)
    /\ endpoint.result
    /\ rerr' = unmarshalResult(resp.body)
    /\ decoded' = TRUE
    /\ rpc' = "returned"
    /\ UNCHANGED <<endpoint, resp, statusCode, gerr>>
    /\ UNCHANGED <<encVars, decVars, storeVars, recVars, utilVars>>

\* The endpoint method: err != nil
EndpointError ==
    /\ rpc = "returned"
    /\ rerr # nilError
    /\ gerr' = rerr
    /\ rpc' = "done"
    /\ UNCHANGED <<endpoint, resp, statusCode, rerr, decoded>>
    /\ UNCHANGED <<encVars, decVars, storeVars, recVars, utilVars>>

\* The endpoint method: switch statusCode
EndpointSwitch ==
    /\ rpc = "returned"
    /\ rerr = nilError
    /\ gerr' = statusSwitch(endpoint.name, statusCode)
    /\ rpc' = "done"
    /\ UNCHANGED <<endpoint, resp, statusCode, rerr, decoded>>
    /\ UNCHANGED <<encVars, decVars, storeVars, recVars, utilVars>>

NextRequest ==
    \/ ClientDoFails
    \/ ClientDo
    \/ DecodeError
    \/ NoResult
    \/ DecodeResult
    \/ EndpointError
    \/ EndpointSwitch

SpecRequest == InitRequest /\ [][NextRequest]_vars

---------------------------------------------------------------------------
(* Vocabulary of the properties of the encoder *)

Prefixes(s) == {SubSeq(s, 1, k) : k \in 0..Len(s)}

\* The tag declares wire name n: it is n, or n followed by a comma and the rest
Declares(tag, n) ==
    /\ ~Contains(n, ",")
    /\ \/ tag = n
       \/ Len(tag) > Len(n) /\ tag[Len(n) + 1] = ","

\* The wire name the tag declares
WireName(tag) == CHOOSE n \in Prefixes(tag) : Declares(tag, n)

\* The tag carries option o after its wire name
Carries(tag, o) == \E n \in Prefixes(tag) : ~Contains(n, ",") /\ tag = n \o <<",">> \o o

Pair(n, v) == n \o <<"=">> \o v

Count(s, c) == Cardinality({k \in 1..Len(s) : s[k] = c})

RECURSIVE Join(_, _)
Join(texts, sep) ==
    IF texts = <<>> THEN <<>>
    ELSE IF Len(texts) = 1 THEN texts[1]
    ELSE texts[1] \o sep \o Join(Tail(texts), sep)

\* Iteration k of the loop emitted the text, followed by the separator
Emits(k, text) == out[k] = text \o <<"&">>

EmitsNothing(k) == out[k] = <<>>

\* The emissions of the fields that emitted, without their separator, in order
Emissions ==
    LET emitted == SelectSeq(out, LAMBDA e : e # <<>>)
    IN  [k \in 1..Len(emitted) |-> SubSeq(emitted[k], 1, Len(emitted[k]) - 1)]

ZeroValued(fld) ==
    fld.str = <<>> /\ fld.int = 0 /\ ~fld.bool /\ fld.time = zeroTime /\ fld.list = <<>>

\* n as decimal digits, padded with zeros to the width w
RECURSIVE Pad(_, _)
Pad(text, w) == IF Len(text) >= w THEN text ELSE Pad(<<"0">> \o text, w)

---------------------------------------------------------------------------
(* Properties of the encoder *)

C2_BoolWithoutInvert ==
    /\ \A k \in 1..Len(out) :
        LET fld == params[k]
            n == WireName(fld.tag)
        IN  fld.type = "bool" /\ ~Carries(fld.tag, _OPTION_REVERSE) =>
                /\ fld.bool => Emits(k, Pair(n, <<"t", "r", "u", "e">>))
                /\ ~fld.bool /\ Carries(fld.tag, _OPTION_RESPECT) => Emits(k, Pair(n, <<"f", "a", "l", "s", "e">>))
                /\ ~fld.bool /\ ~Carries(fld.tag, _OPTION_RESPECT) => EmitsNothing(k)
    /\ pc = "done" /\ params = TestIssuePicker =>
        result = <<"q", "u", "e", "r", "y", "=", "A", "B", "C", "D", "&", "s", "h", "o", "w", "S", "u", "b", "T", "a", "s", "k", "s", "=", "t", "r", "u", "e", "&", "s", "h", "o", "w", "S", "u", "b", "T", "a", "s", "k", "P", "a", "r", "e", "n", "t", "=", "f", "a", "l", "s", "e">>

C2_Witness ==
    /\ pc = "done"
    /\ \E k \in 1..Len(out) :
        /\ params[k].type = "bool"
        /\ Carries(params[k].tag, _OPTION_RESPECT)
        /\ ~params[k].bool
        /\ out[k] # <<>>

\* C3: a boolean field whose tag carries the invert flag emits n=false when
\* true and nothing when false; it never emits n=true.
C3_BoolWithInvert ==
    \A k \in 1..Len(out) :
        LET fld == params[k]
            n == WireName(fld.tag)
        IN  fld.type = "bool" /\ Carries(fld.tag, _OPTION_REVERSE) =>
                /\ fld.bool => Emits(k, Pair(n, <<"f", "a", "l", "s", "e">>))
                /\ ~fld.bool => EmitsNothing(k)
                /\ ~Emits(k, Pair(n, <<"t", "r", "u", "e">>))

C3_Witness ==
    /\ pc = "done"
    /\ \E k \in 1..Len(out) :
        /\ params[k].type = "bool"
        /\ Carries(params[k].tag, _OPTION_REVERSE)
        /\ params[k].bool
        /\ out[k] # <<>>

\* C4: a text field with wire name n (tag n alone, or n and any flag) emits
\* n=escaped(v) for a non-empty value v; an empty value emits "n=" when the tag
\* carries respect and nothing otherwise; the key is always the wire name.
C4_TextKeyIsWireName ==
    \A k \in 1..Len(out) :
        LET fld == params[k]
            n == WireName(fld.tag)
        IN  fld.type = "string" =>
                /\ fld.str # <<>> => Emits(k, Pair(n, esc(fld.str)))
                /\ fld.str = <<>> /\ Carries(fld.tag, _OPTION_RESPECT) => Emits(k, Pair(n, <<>>))
                /\ fld.str = <<>> /\ ~Carries(fld.tag, _OPTION_RESPECT) => EmitsNothing(k)

\* C5: an integer field with wire name n (tag n alone, or n and a flag) emits
\* n=<decimal value> for a non-zero value; zero emits n=0 when the tag carries
\* respect and nothing otherwise; the key is always the wire name.
C5_IntKeyIsWireName ==
    \A k \in 1..Len(out) :
        LET fld == params[k]
            n == WireName(fld.tag)
        IN  fld.type = "int" =>
                /\ fld.int # 0 => Emits(k, Pair(n, Sprintf_d(fld.int)))
                /\ fld.int = 0 /\ Carries(fld.tag, _OPTION_RESPECT) => Emits(k, Pair(n, <<"0">>))
                /\ fld.int = 0 /\ ~Carries(fld.tag, _OPTION_RESPECT) => EmitsNothing(k)

\* C6: a timestamp field with wire name n emits n=YYYY-MM-DD (four-digit year,
\* two-digit month and day, nothing of the time of day) for every non-zero
\* timestamp and nothing for the zero timestamp.
C6_DateIsYYYYMMDD ==
    \A k \in 1..Len(out) :
        LET fld == params[k]
            n == WireName(fld.tag)
            d == fld.time
        IN  fld.type = "time.Time" =>
                /\ d # zeroTime =>
                    Emits(k, Pair(n, Pad(Digits(d.year), 4) \o <<"-">> \o Pad(Digits(d.month), 2)
                                     \o <<"-">> \o Pad(Digits(d.day), 2)))
                /\ d = zeroTime => EmitsNothing(k)

\* C7: a non-empty sequence field without the unwrap flag emits the single
\* pair n=escaped(e1),escaped(e2),...: one "=", the elements in order, and as
\* many literal commas as elements less one, commas inside elements being
\* escaped (["test1,test2"] gives expand=test1%2Ctest2).
C7_SliceCommaJoined ==
    /\ \A k \in 1..Len(out) :
        LET fld == params[k]
            n == WireName(fld.tag)
        IN  fld.type = "[]string" /\ ~Carries(fld.tag, _OPTION_UNWRAP) /\ fld.list # <<>> =>
                /\ Emits(k, Pair(n, Join([j \in 1..Len(fld.list) |-> esc(fld.list[j])], <<",">>)))
                /\ Count(out[k], "=") = 1
                /\ Count(out[k], ",") = Len(fld.list) - 1
    /\ pc = "done" /\ params = TestExpand => result = <<"e", "x", "p", "a", "n", "d", "=", "t", "e", "s", "t", "1", "%", "2", "C", "t", "e", "s", "t", "2">>

C7_Witness ==
    /\ pc = "done"
    /\ \E k \in 1..Len(out) :
        /\ params[k].type = "[]string"
        /\ ~Carries(params[k].tag, _OPTION_UNWRAP)
        /\ Len(params[k].list) >= 2
        /\ \E j \in 1..Len(params[k].list) : Contains(params[k].list[j], ",")
        /\ out[k] # <<>>

\* C8: a non-empty sequence field with the unwrap flag emits one pair
\* n=escaped(element) per element, in order, joined by "&": as many pairs as
\* elements, none merged, dropped or duplicated.
C8_SliceUnwrapped ==
    \A k \in 1..Len(out) :
        LET fld == params[k]
            n == WireName(fld.tag)
        IN  fld.type = "[]string" /\ Carries(fld.tag, _OPTION_UNWRAP) /\ fld.list # <<>> =>
                /\ Emits(k, Join([j \in 1..Len(fld.list) |-> Pair(n, esc(fld.list[j]))], <<"&">>))
                /\ Count(out[k], "=") = Len(fld.list)
                /\ Count(out[k], "&") = Len(fld.list)

C8_Witness ==
    /\ pc = "done"
    /\ \E k \in 1..Len(out) :
        /\ params[k].type = "[]string"
        /\ Carries(params[k].tag, _OPTION_UNWRAP)
        /\ Len(params[k].list) >= 2
        /\ Count(out[k], "=") = Len(params[k].list)

\* C9: when no field emits (in particular when every field is at its zero
\* value under a tag without respect, and for EmptyParameters) ToQuery returns
\* the empty string, and nothing is stripped from an empty result.
C9_NothingEmittedIsEmpty ==
    pc = "done" =>
        /\ (\A k \in 1..Len(out) : EmitsNothing(k)) => result = <<>>
        /\ (\A k \in 1..Len(params) :
                ZeroValued(params[k]) /\ ~Carries(params[k].tag, _OPTION_RESPECT))
            => result = <<>>
        /\ result # PANIC

C9_Witness ==
    /\ pc = "done"
    /\ Len(params) >= 2
    /\ \A k \in 1..Len(params) : ZeroValued(params[k])
    /\ result = <<>>

---------------------------------------------------------------------------
(* Properties of the decoder *)

\* The typed value a member of the input denotes for a known field
Parsed(key) ==
    LET chunk == input.object[key]
    IN  CASE key = <<"t", "i", "m", "e", "s", "p", "e", "n", "t">> -> NumberValue(chunk.raw)
          [] key = <<"s", "u", "m", "m", "a", "r", "y">> -> TrimQuotes(chunk.raw)
          [] key = <<"r", "e", "s", "o", "l", "u", "t", "i", "o", "n", "d", "a", "t", "e">> -> [nil |-> FALSE, Time |-> DateUnmarshalJSON(chunk.raw).time]

\* The member of the input has the JSON kind the known field is decoded from
Fits(key) ==
    input.object[key].kind = (IF key = <<"t", "i", "m", "e", "s", "p", "e", "n", "t">> THEN "number" ELSE "string")

Holds(key) ==
    CASE key = <<"t", "i", "m", "e", "s", "p", "e", "n", "t">> -> f.TimeSpent
      [] key = <<"s", "u", "m", "m", "a", "r", "y">> -> f.Summary
      [] key = <<"r", "e", "s", "o", "l", "u", "t", "i", "o", "n", "d", "a", "t", "e">> -> f.ResolutionDate

WireNames_IssueFields == {<<"t", "i", "m", "e", "s", "p", "e", "n", "t">>, <<"s", "u", "m", "m", "a", "r", "y">>, <<"r", "e", "s", "o", "l", "u", "t", "i", "o", "n", "d", "a", "t", "e">>}

\* C10: after a successful UnmarshalJSON of an object, every known field whose
\* wire name is a key of the object holds the value parsed from that key's
\* fragment, and every key with the prefix customfield_ that is not a known
\* wire name and whose fragment is not null is in Custom with its raw fragment
\* unchanged.
C10_KnownSetAndCustomKept ==
    dpc = "done" /\ err = "nil" /\ input.kind = "object" =>
        /\ \A key \in DOMAIN input.object \cap WireNames_IssueFields :
            input.object[key].kind # "null" => Fits(key) /\ Holds(key) = Parsed(key)
        /\ \A key \in DOMAIN input.object :
            /\ HasPrefix(key, customPrefix)
            /\ key \notin WireNames_IssueFields
            /\ input.object[key].raw # <<"n", "u", "l", "l">>
            => key \in DOMAIN Custom /\ Custom[key] = input.object[key]

\* The object of TestCustomUnmarshalers decodes as the test asserts
TestFieldsDecoded ==
    dpc = "done" /\ input = TestFields =>
        /\ err = "nil"
        /\ f.TimeSpent = 7200
        /\ f.ResolutionDate.Time.day = 26
        /\ DOMAIN Custom = {<<"c", "u", "s", "t", "o", "m", "f", "i", "e", "l", "d", "_", "1", "0", "7", "0", "0">>}

\* C11: after a successful UnmarshalJSON every key of Custom begins with
\* customfield_ and none is the wire name of a known field; a key of the input
\* that is neither known nor prefixed is not in Custom, and no error came of it.
C11_CustomKeysPrefixed ==
    dpc = "done" /\ err = "nil" =>
        /\ \A key \in DOMAIN Custom :
            HasPrefix(key, customPrefix) /\ key \notin WireNames_IssueFields
        /\ input.kind = "object" =>
            \A key \in DOMAIN input.object :
                key \notin WireNames_IssueFields /\ ~HasPrefix(key, customPrefix)
                    => key \notin DOMAIN Custom

\* C12: after a successful UnmarshalJSON no entry of Custom has the JSON null
\* as its raw value: a customfield_ key of the input whose value is null is not
\* in Custom, Has is false for it and Unmarshal reports it as not existing.
C12_NoNullEntries ==
    dpc = "done" /\ err = "nil" =>
        /\ \A key \in DOMAIN Custom : Custom[key].raw # <<"n", "u", "l", "l">>
        /\ input.kind = "object" =>
            \A key \in DOMAIN input.object :
                HasPrefix(key, customPrefix) /\ input.object[key].raw = <<"n", "u", "l", "l">>
                    => /\ key \notin DOMAIN Custom
                       /\ ~Has(Custom, key)
                       /\ Unmarshal(Custom, key, "string") = "not exist"

\* The JSON kind a target of Unmarshal is decoded from
KindOf(target) == IF target = "string" THEN "string" ELSE "number"

\* C13: on the Custom a decode leaves, Has(name) is true exactly when name is a
\* key of Custom; Unmarshal(name, v) reports that the field does not exist
\* exactly when name is not a key; for a key whose value is of another type
\* than v it returns the error of the JSON decoder, which is another error.
C13_HasAndUnmarshal ==
    /\ lookup.op = "Has" => (lookup.has <=> lookup.name \in DOMAIN Custom)
    /\ lookup.op = "Unmarshal" =>
        /\ lookup.err = "not exist" <=> lookup.name \notin DOMAIN Custom
        /\ lookup.name \in DOMAIN Custom =>
            IF Custom[lookup.name].kind \in {KindOf(lookup.target), "null"}
                THEN lookup.err = "nil" ELSE lookup.err = "json"

C13_Witness ==
    /\ lookup.op = "Unmarshal"
    /\ lookup.name = <<"c", "u", "s", "t", "o", "m", "f", "i", "e", "l", "d", "_", "1", "0", "7", "0", "0">>
    /\ lookup.name \in DOMAIN Custom
    /\ lookup.target = "int"
    /\ lookup.err = "json"

\* The date and the time of day written in a text, read off by hand
Written(year, month, day, hour, min, sec) ==
    [year |-> year, month |-> month, day |-> day, hour |-> hour, min |-> min, sec |-> sec]

\* Texts of the full layout (they hold the separator T) and of the bare layout
WrittenIn(chunk) ==
    CASE chunk = JString(<<"2", "0", "1", "8", "-", "0", "5", "-", "1", "6", "T", "2", "3", ":", "5", "5", ":", "3", "9", ".", "2", "4", "6", "+", "0", "3", "0", "0">>) -> Written(2018, 5, 16, 23, 55, 39)
      [] chunk = JString(<<"2", "0", "1", "8", "-", "0", "3", "-", "2", "6", "T", "1", "7", ":", "3", "7", ":", "2", "9", ".", "8", "0", "5", "+", "0", "3", "0", "0">>) -> Written(2018, 3, 26, 17, 37, 29)
      [] chunk = JString(<<"2", "0", "1", "6", "-", "0", "2", "-", "2", "9", "T", "7", ":", "0", "5", ":", "0", "9", "-", "0", "1", "3", "0">>) -> Written(2016, 2, 29, 7, 5, 9)
      [] chunk = JString(<<"2", "0", "1", "8", "-", "1", "0", "-", "1", "8">>) -> Written(2018, 10, 18, 0, 0, 0)

\* The input is an object whose keys, but for resolutiondate, are not known
OnlyDateKnown ==
    /\ input.kind = "object"
    /\ <<"r", "e", "s", "o", "l", "u", "t", "i", "o", "n", "d", "a", "t", "e">> \in DOMAIN input.object
    /\ DOMAIN input.object \subseteq {<<"r", "e", "s", "o", "l", "u", "t", "i", "o", "n", "d", "a", "t", "e">>, <<"c", "u", "s", "t", "o", "m", "f", "i", "e", "l", "d", "_", "1", "0", "7", "0", "0">>, <<"c", "u", "s", "t", "o", "m", "f", "i", "e", "l", "d", "_", "1">>, <<"f", "o", "o">>}

\* C14: Date.UnmarshalJSON takes the layout by the separator T in the raw text:
\* a text of the full layout decodes to the year, month, day, hour, minute and
\* second written in it, a text of the bare layout YYYY-MM-DD to the year,
\* month and day written in it.
C14_DateLayoutBySeparator ==
    dpc = "done" /\ OnlyDateKnown /\ input.object[<<"r", "e", "s", "o", "l", "u", "t", "i", "o", "n", "d", "a", "t", "e">>] \in DateValues =>
        LET chunk == input.object[<<"r", "e", "s", "o", "l", "u", "t", "i", "o", "n", "d", "a", "t", "e">>]
            d == f.ResolutionDate
        IN  /\ err = "nil"
            /\ ~d.nil
            /\ d.Time.year = WrittenIn(chunk).year
            /\ d.Time.month = WrittenIn(chunk).month
            /\ d.Time.day = WrittenIn(chunk).day
            /\ Contains(chunk.raw, "T") => d.Time = WrittenIn(chunk)

C14_Witness ==
    /\ dpc = "done"
    /\ err = "nil"
    /\ OnlyDateKnown
    /\ input.object[<<"r", "e", "s", "o", "l", "u", "t", "i", "o", "n", "d", "a", "t", "e">>] = JString(<<"2", "0", "1", "8", "-", "0", "5", "-", "1", "6", "T", "2", "3", ":", "5", "5", ":", "3", "9", ".", "2", "4", "6", "+", "0", "3", "0", "0">>)
    /\ f.ResolutionDate.Time = Written(2018, 5, 16, 23, 55, 39)

\* C15: a raw value of neither layout makes Date.UnmarshalJSON return an error,
\* never success, and as the value of the known field resolutiondate it makes
\* IssueFields.UnmarshalJSON return an error.
C15_NoDateIsError ==
    /\ dpc = "done"
    /\ input.kind = "object"
    /\ <<"r", "e", "s", "o", "l", "u", "t", "i", "o", "n", "d", "a", "t", "e">> \in DOMAIN input.object
    /\ input.object[<<"r", "e", "s", "o", "l", "u", "t", "i", "o", "n", "d", "a", "t", "e">>] \in NoDateValues \cup {JNumber(<<"7", "2", "0", "0">>), JString(<<"T", "E", "S", "T", "1", "2", "3">>)}
    => err = "field"

C15_Witness ==
    /\ dpc = "done"
    /\ OnlyDateKnown
    /\ input.object[<<"r", "e", "s", "o", "l", "u", "t", "i", "o", "n", "d", "a", "t", "e">>] = JString(<<"2", "0", "1", "8", "-", "0", "2", "-", "3", "0">>)
    /\ err = "field"

\* C16: when b is not a JSON object (json.Unmarshal into the map fails),
\* UnmarshalJSON returns the error of json.Unmarshal, no known field is
\* assigned and Custom has no entries.
C16_ParseErrorReturned ==
    dpc = "done" /\ input.kind \notin {"object", "null"} =>
        /\ err = "json"
        /\ f = zeroFields
        /\ DOMAIN Custom = {}
        /\ lookup.op = "Has" => ~lookup.has
        /\ lookup.op = "Unmarshal" => lookup.err = "not exist"

C16_Witness ==
    /\ dpc = "done"
    /\ input.kind = "invalid"
    /\ err = "json"
    /\ lookup.op = "Has"

\* C17: when the fragment of a known field cannot be parsed into the type of
\* the field, UnmarshalJSON returns the error and the record is not partially
\* populated: no known field holds a value of the input and Custom holds no
\* entry of the input.
C17_NoPartialPopulation ==
    dpc = "done" /\ err = "field" =>
        /\ f.TimeSpent = 0
        /\ f.Summary = <<>>
        /\ f.ResolutionDate.Time = zeroTime
        /\ DOMAIN Custom = {}

\* The keys of an object that a decode running alone leaves in Custom
KeptKeys(o) ==
    {key \in DOMAIN o :
        /\ HasPrefix(key, customPrefix)
        /\ key \notin WireNames_IssueFields
        /\ o[key].raw # <<"n", "u", "l", "l">>}

\* What the two calls yield when each runs alone
AloneOutcome ==
    /\ pc = "done" => result = paramsToQuery(params)
    /\ dpc = "done" /\ input.kind # "object" =>
        f = zeroFields /\ DOMAIN Custom = {} /\ (err = "nil" <=> input.kind = "null")
    /\ dpc = "done" /\ input.kind = "object" /\ <<"-">> \notin DOMAIN input.object =>
        /\ err = "nil" <=>
                \A key \in DOMAIN input.object \cap WireNames_IssueFields :
                    \/ input.object[key].kind = "null"
                    \/ Fits(key) /\ (key = <<"r", "e", "s", "o", "l", "u", "t", "i", "o", "n", "d", "a", "t", "e">> => input.object[key] \in DateValues)
        /\ err = "nil" =>
            /\ DOMAIN Custom = KeptKeys(input.object)
            /\ \A key \in DOMAIN input.object \cap WireNames_IssueFields :
                    input.object[key].kind # "null" => Holds(key) = Parsed(key)

C19_SequencesFirst ==
    pc = "done" =>
        /\ params = TestGroupUserPicker =>
                result = <<"p", "r", "o", "j", "e", "c", "t", "I", "d", "=", "1", "&", "p", "r", "o", "j", "e", "c", "t", "I", "d", "=", "2", "&", "q", "u", "e", "r", "y", "=", "A", "B", "C", "D", "&", "s", "h", "o", "w", "A", "v", "a", "t", "a", "r", "=", "t", "r", "u", "e">>
        /\ params = TestSearch =>
                result = <<"e", "x", "p", "a", "n", "d", "=", "t", "e", "s", "t", "1", "%", "2", "C", "t", "e", "s", "t", "2", "&", "j", "q", "l", "=", "A", "B", "C", "D", "&", "s", "t", "a", "r", "t", "A", "t", "=", "1", "&", "v", "a", "l", "i", "d", "a", "t", "e", "Q", "u", "e", "r", "y", "=", "f", "a", "l", "s", "e">>

\* The call of GetIssue has returned and the server has answered
GetIssueAnswered == rpc = "done" /\ endpoint.name = "GetIssue" /\ ~resp.fails

\* The messages of Jira a body carries: those of an error collection
Messages(data) ==
    IF data.json # "object" \/ ~data.collection THEN {}
    ELSE IF Len(data.errorMessages) > 0 THEN {data.errorMessages[1]}
    ELSE data.errors

\* C20 as stated: whatever the response body, GetIssue returns ErrNoAuth when
\* the server answers 401, ErrNoContent when it answers 404, the error of an
\* unknown status for any other status but 200, and nil only for status 200.
C20_StatusAloneDecides ==
    GetIssueAnswered =>
        /\ resp.status = 401 => gerr.kind = "ErrNoAuth"
        /\ resp.status = 404 => gerr.kind = "ErrNoContent"
        /\ resp.status \notin {200, 401, 404} =>
                gerr.kind = "unknown" /\ gerr.code = resp.status
        /\ gerr.kind = "nil" => resp.status = 200

\* C20 amended: when the server answers GetIssue with a status other than 200
\* and the body is an error collection with a message, GetIssue returns an
\* error with that message; when the body carries no message the status alone
\* decides: 401 gives ErrNoAuth, 404 ErrNoContent, any other status but 200
\* the error of an unknown status; nil is returned only for status 200.
C20_StatusOrMessageOfJira ==
    GetIssueAnswered =>
        /\ resp.status # 200 /\ Messages(resp.body) # {} =>
                gerr.kind = "message" /\ gerr.text \in Messages(resp.body)
        /\ resp.status # 200 /\ Messages(resp.body) = {} =>
                /\ resp.status = 401 => gerr.kind = "ErrNoAuth"
                /\ resp.status = 404 => gerr.kind = "ErrNoContent"
                /\ resp.status \notin {401, 404} =>
                        gerr.kind = "unknown" /\ gerr.code = resp.status
        /\ gerr.kind = "nil" => resp.status = 200

C20_Witness ==
    /\ GetIssueAnswered
    /\ resp.status = 404
    /\ resp.body.errorMessages = <<"Issue Does Not Exist", "Second">>
    /\ gerr = Error("message", 0, "Issue Does Not Exist")

\* The text cut at every occurrence of the character c
RECURSIVE Split(_, _)
Split(text, c) ==
    IF ~Contains(text, c) THEN <<text>>
    ELSE <<SubSeq(text, 1, Index(text, c))>>
         \o Split(SubSeq(text, Index(text, c) + 2, Len(text)), c)

\* The pairs field k emits: one for each element of an unwrapped sequence,
\* one for any other field that emits, none for a field that emits nothing
PairsOf(k) ==
    IF out[k] = <<>> THEN 0
    ELSE IF params[k].type = "[]string" /\ Carries(params[k].tag, _OPTION_UNWRAP)
        THEN Len(params[k].list)
    ELSE 1

RECURSIVE PairsUpTo(_)
PairsUpTo(k) == IF k = 0 THEN 0 ELSE PairsUpTo(k - 1) + PairsOf(k)

\* C21: in the output of ToQuery "&" and "=" occur only as structure: the
\* output cut at "&" has as many pieces as pairs were emitted (so the number
\* of "&" is that number less one), and every piece holds exactly one "=",
\* whatever characters the values hold.
C21_AmpersandAndEqualsAreStructure ==
    pc = "done" =>
        /\ result = <<>> => PairsUpTo(Len(out)) = 0
        /\ result # <<>> =>
            LET pieces == Split(result, "&")
            IN  /\ Len(pieces) = PairsUpTo(Len(out))
                /\ Count(result, "&") = PairsUpTo(Len(out)) - 1
                /\ \A k \in 1..Len(pieces) : Count(pieces[k], "=") = 1

C21_Witness ==
    /\ pc = "done"
    /\ Len(params) = 2
    /\ params[1].type = "string" /\ Contains(params[1].str, "&") /\ Contains(params[1].str, "=")
    /\ params[2].type = "[]string" /\ Carries(params[2].tag, _OPTION_UNWRAP)
    /\ Len(params[2].list) = 2
    /\ Count(result, "&") = 2

---------------------------------------------------------------------------
(* utils.go: hasTagOption, getTagName and readField called on their own *)

\* Texts of a name character and commas
ShortTexts == UNION {[1..n -> {"p", ","}] : n \in 0..MaxTagLen}

\* The tags the helpers are called with: the short texts, an option between
\* two of them, and tags of the records of api.go
TagTexts ==
    ShortTexts
    \cup {a \o o \o b : a \in ShortTexts, o \in Options, b \in ShortTexts}
    \cup {<<"m", "a", "x", "R", "e", "s", "u", "l", "t", "s", ",", "r", "e", "s", "p", "e", "c", "t">>, <<"p", "r", "o", "j", "e", "c", "t", "I", "d", ",", "u", "n", "w", "r", "a", "p">>, <<"s", "h", "o", "w", "S", "u", "b", "T", "a", "s", "k", "P", "a", "r", "e", "n", "t", ",", "r", "e", "s", "p", "e", "c", "t">>,
          <<"t", "i", "m", "e", "s", "p", "e", "n", "t">>, <<"s", "u", "m", "m", "a", "r", "y">>, <<"-">>, <<",", "o", "m", "i", "t", "e", "m", "p", "t", "y">>, <<"s", "u", "m", "m", "a", "r", "y", ",", "o", "m", "i", "t", "e", "m", "p", "t", "y">>}

InitTags ==
    /\ EncoderIdle
    /\ DecoderIdle
    /\ RequestIdle
    /\ UtilIdle

\* hasTagOption(tag, option) for each of the three options of the package
CallHasTagOption ==
    /\ call = NoCall
    /\ \E tag \in TagTexts :
        call' = [op |-> "hasTagOption", tag |-> tag, index |-> 0,
                 options |-> {o \in Options : hasTagOption(tag, o)}, text |-> <<>>]
    /\ UNCHANGED <<encVars, decVars, storeVars, recVars, reqVars>>

\* getTagName(tag)
CallGetTagName ==
    /\ call = NoCall
    /\ \E tag \in TagTexts :
        call' = [op |-> "getTagName", tag |-> tag, index |-> 0,
                 options |-> {}, text |-> getTagName(tag)]
    /\ UNCHANGED <<encVars, decVars, storeVars, recVars, reqVars>>

\* readField(tag, index, ',')
CallReadField ==
    /\ call = NoCall
    /\ \E tag \in TagTexts, index \in 0..1 :
        call' = [op |-> "readField", tag |-> tag, index |-> index,
                 options |-> {}, text |-> readField(tag, index, ",")]
    /\ UNCHANGED <<encVars, decVars, storeVars, recVars, reqVars>>

NextTags ==
    \/ CallHasTagOption
    \/ CallGetTagName
    \/ CallReadField

SpecTags == InitTags /\ [][NextTags]_vars

---------------------------------------------------------------------------
(* Properties of the helpers of utils.go *)

\* The text of the tag after its first comma
AfterFirstComma(tag) == SubSeq(tag, Len(WireName(tag)) + 2, Len(tag))

\* C22: for every tag at most one of the three options is recognised; an
\* option is recognised exactly when the tag has a comma and the text after
\* the first comma equals the keyword, and getTagName is the text before the
\* first comma.
C22_AtMostOneFlag ==
    /\ call.op = "hasTagOption" =>
        /\ Cardinality(call.options) <= 1
        /\ \A o \in Options :
            o \in call.options <=> Contains(call.tag, ",") /\ AfterFirstComma(call.tag) = o
    /\ call.op = "getTagName" => call.text = WireName(call.tag)

C22_Witness ==
    /\ call.op = "hasTagOption"
    /\ call.tag = <<"p", "r", "o", "j", "e", "c", "t", "I", "d", ",", "u", "n", "w", "r", "a", "p">>
    /\ call.options = {_OPTION_UNWRAP}

---------------------------------------------------------------------------
(* Properties of the encoder: tags without an option, types the encoder does
   not handle, empty values *)

\* The tag carries none of the three options after its first comma
NoFlag(tag) == \A o \in Options : ~Carries(tag, o)

Begins(text, p) == Len(text) >= Len(p) /\ SubSeq(text, 1, Len(p)) = p

\* C23 (as stated): a field whose tag carries no recognised option emits its
\* pair under the whole tag text, whatever its type.
C23_WholeTagIsName ==
    \A k \in 1..Len(out) :
        NoFlag(params[k].tag) /\ out[k] # <<>> =>
            Begins(out[k], params[k].tag \o <<"=">>)

\* C23 (amended): a tag without a comma is the wire name as a whole for every
\* type; under a tag with a comma and no recognised option a boolean or a
\* sequence field emits under the text before the first comma, and a string,
\* int or timestamp field that holds a value emits under the whole tag text;
\* the encoder never fails.
C23_NameOfTagWithoutOption ==
    /\ \A k \in 1..Len(out) :
        LET fld == params[k]
        IN  NoFlag(fld.tag) /\ out[k] # <<>> =>
                /\ ~Contains(fld.tag, ",") => Begins(out[k], fld.tag \o <<"=">>)
                /\ Contains(fld.tag, ",") /\ fld.type \in {"bool", "[]string"} =>
                    /\ Begins(out[k], WireName(fld.tag) \o <<"=">>)
                    /\ ~Begins(out[k], fld.tag \o <<"=">>)
                /\ Contains(fld.tag, ",") /\ fld.type \in {"string", "int", "time.Time"} =>
                    Begins(out[k], fld.tag \o <<"=">>)
    /\ \A k \in 1..Len(out) : out[k] # PANIC
    /\ result # PANIC

C23_Witness ==
    /\ pc = "done"
    /\ \E k \in 1..Len(out) :
        /\ params[k].type = "bool"
        /\ params[k].tag = <<"p", ",", "b", "o", "g", "u", "s">>
        /\ out[k] = <<"p", "=", "t", "r", "u", "e", "&">>

\* The types the switch of paramsToQuery has a case for
HandledTypes == {"string", "int", "bool", "time.Time", "[]string"}

\* C29: a field whose type is none of the five handled types emits nothing,
\* whatever its value and tag, and the query string is the one of the record
\* without such fields.
C29_UnhandledTypeEmitsNothing ==
    /\ \A k \in 1..Len(out) : params[k].type \notin HandledTypes => EmitsNothing(k)
    /\ pc = "done" =>
        result = paramsToQuery(SelectSeq(params, LAMBDA fld : fld.type \in HandledTypes))

C29_Witness ==
    /\ pc = "done"
    /\ Len(params) = 2
    /\ params[1].type = "int64" /\ params[1].int = 7
    /\ params[2].type = "string"
    /\ result = <<"q", "=", "a">>

\* C24: an empty sequence field and a zero timestamp field emit nothing
\* whatever option their tag carries, respect included; a sequence field that
\* emits has at least one element, and no emission holds the failure of a
\* trim of an empty string.
C24_EmptySequenceAndZeroTimeOmitted ==
    \A k \in 1..Len(out) :
        LET fld == params[k]
        IN  /\ fld.type = "[]string" /\ fld.list = <<>> => EmitsNothing(k)
            /\ fld.type = "time.Time" /\ fld.time = zeroTime => EmitsNothing(k)
            /\ fld.type = "[]string" /\ ~EmitsNothing(k) => Len(fld.list) >= 1
            /\ fld.type = "[]string" => ~Contains(out[k], PANIC[1])

C24_Witness ==
    /\ pc = "done"
    /\ Len(params) = 2
    /\ params[1].type = "[]string" /\ Carries(params[1].tag, _OPTION_RESPECT)
    /\ params[1].list = <<>>
    /\ params[2].type = "time.Time" /\ Carries(params[2].tag, _OPTION_RESPECT)
    /\ params[2].time = zeroTime
    /\ result = <<>>

---------------------------------------------------------------------------
(* IssueFields.UnmarshalJSON called again on the record of an earlier call *)

RedecodeValues ==
    SimpleValues
    \cup {JString(<<"2", "0", "1", "8", "-", "1", "0", "-", "1", "8">>), JString(<<"1", "6", ".", "0", "5", ".", "2", "0", "1", "8">>)}
    \cup {v \in ObjectValues : v.members[1].key \in {<<"t", "i", "m", "e", "s", "p", "e", "n", "t">>, <<"c", "u", "s", "t", "o", "m", "f", "i", "e", "l", "d", "_", "1">>}}

\* The inputs of the calls: objects of one member, the object of the test, an
\* object that has the key Custom is registered under beside a known key, and
\* the inputs that are no object
RedecodeInputs ==
    {in \in Inputs :
        in.kind = "object" =>
            \/ in = TestFields
            \/ /\ Cardinality(DOMAIN in.object) = 1
               /\ \A key \in DOMAIN in.object : in.object[key] \in RedecodeValues
            \/ /\ DOMAIN in.object = {<<"-">>, <<"t", "i", "m", "e", "s", "p", "e", "n", "t">>}
               /\ in.object[<<"-">>].kind = "object"
               /\ in.object[<<"-">>].members[1].key = <<"t", "i", "m", "e", "s", "p", "e", "n", "t">>
               /\ in.object[<<"t", "i", "m", "e", "s", "p", "e", "n", "t">>] = JNumber(<<"7", "2", "0", "0">>)}

InitRedecode ==
    /\ input \in RedecodeInputs
    /\ f = zeroFields
    /\ custom = EmptyMap
    /\ customNil = TRUE
    /\ todo = {}
    /\ err = "nil"
    /\ dpc = "call"
    /\ lookup = NoLookup
    /\ earlier = <<>>
    /\ EncoderIdle
    /\ RequestIdle
    /\ UtilIdle

\* The caller hands the record of a call that returned nil to UnmarshalJSON
\* again, with another input: the fields and f.Custom are as the call left them
CallAgain ==
    /\ dpc = "done"
    /\ err = "nil"
    /\ lookup = NoLookup
    /\ Len(earlier) < MaxCalls - 1
    /\ earlier' = Append(earlier, [input |-> input, f |-> f])
    /\ input' \in RedecodeInputs
    /\ dpc' = "call"
    /\ UNCHANGED <<f, custom, customNil, todo, err>>
    /\ UNCHANGED <<encVars, storeVars, reqVars, utilVars>>

NextRedecode ==
    \/ CallAgain
    \/ NextDecode

SpecRedecode == InitRedecode /\ [][NextRedecode]_vars

---------------------------------------------------------------------------
(* Properties of the decoder: calls on the same record, visiting orders *)

\* The members of the chunk of the key Custom is registered under
CustomChunk(in) ==
    IF in.kind = "object" /\ <<"-">> \in DOMAIN in.object /\ in.object[<<"-">>].kind = "object"
        THEN {in.object[<<"-">>].members[k] : k \in 1..Len(in.object[<<"-">>].members)}
        ELSE {}

\* The keys an input mentions: its own and those of that chunk
Mentioned(in) ==
    (IF in.kind = "object" THEN DOMAIN in.object ELSE {}) \cup {m.key : m \in CustomChunk(in)}

\* The fragments an input gives for a key
Fragments(in, key) ==
    (IF in.kind = "object" /\ key \in DOMAIN in.object THEN {in.object[key]} ELSE {})
    \cup {m.val : m \in {c \in CustomChunk(in) : c.key = key}}

\* What a known field holds in a record, by wire name
HeldIn(rec, key) ==
    CASE key = <<"t", "i", "m", "e", "s", "p", "e", "n", "t">> -> rec.TimeSpent
      [] key = <<"s", "u", "m", "m", "a", "r", "y">> -> rec.Summary
      [] key = <<"r", "e", "s", "o", "l", "u", "t", "i", "o", "n", "d", "a", "t", "e">> -> rec.ResolutionDate

\* What the order that visits the key "-" last, and none of the entries its
\* chunk creates, leaves in Custom
LastVisited(o) ==
    LET kept == [key \in KeptKeys(o) |-> o[key]]
    IN  IF <<"-">> \notin DOMAIN o THEN kept
        ELSE IF o[<<"-">>].kind = "null" THEN EmptyMap
        ELSE StoreMembers(kept, o[<<"-">>].members)

\* C28: a successful UnmarshalJSON of an object ends with the same known
\* fields and the same Custom whatever the order in which the loop produces
\* the keys: with those of the order that visits the key "-" last, in which
\* every known field holds what the member of its wire name gives and Custom
\* is what that order leaves.
C28_VisitingOrderDoesNotMatter ==
    dpc = "done" /\ err = "nil" /\ input.kind = "object" /\ earlier = <<>> =>
        /\ \A key \in WireNames_IssueFields :
            Holds(key) = IF key \in DOMAIN input.object /\ input.object[key].kind # "null"
                            THEN Parsed(key) ELSE HeldIn(zeroFields, key)
        /\ Custom = LastVisited(input.object)

C26_ReadFieldIsFirstToken ==
    call.op = "readField" /\ call.index = 0 => call.text = WireName(call.tag)

---------------------------------------------------------------------------
(* Properties of the endpoint methods: the body and the status code *)

\* C27: doRequest decodes a body into the caller's result only when the
\* status is 200, and a body that does not decode never keeps the endpoint
\* method from returning the error of the status.
C27_BodyDecodedAfterStatusCheck ==
    /\ decoded => resp.status = 200
    /\ rpc = "done" /\ ~resp.fails /\ resp.status # 200 => gerr.kind # "json"

---------------------------------------------------------------------------
(* Properties of the encoder and the decoder together *)

\* The value of the pair iteration k emitted: the text between the first "="
\* and the separator
ValueOf(k) == SubSeq(out[k], Index(out[k], "=") + 2, Len(out[k]) - 1)

\* C30: the date text the encoder emits for a non-zero timestamp, wrapped in
\* quotes, is accepted by Date.UnmarshalJSON through the bare-date layout and
\* decodes to the same year, month and day.
C30_DateRoundTrip ==
    \A k \in 1..Len(out) :
        LET fld == params[k]
            back == DateUnmarshalJSON(<<"\"">> \o ValueOf(k) \o <<"\"">>)
        IN  fld.type = "time.Time" /\ fld.time # zeroTime =>
                /\ ~EmitsNothing(k)
                /\ ~Contains(ValueOf(k), "T")
                /\ ~back.err
                /\ back.time.year = fld.time.year
                /\ back.time.month = fld.time.month
                /\ back.time.day = fld.time.day

====
